---------------------------- MODULE Spec2Model ----------------------------
(***************************************************************************)
(* A model of the incremental ingestion pipeline of dsci560-lab5:          *)
(*   - the MySQL upsert store         (src/scripts/database_pipeline.py)   *)
(*   - the link-following crawl loop  (src/scripts/bs4_scraper.py, main)   *)
(*   - the comment tree flattener     (src/scripts/comment_scraper.py)     *)
(*   - the hybrid listing/time-window cursor (src/scripts/reddit_scraper.py)*)
(* Each component has its own specification over its own variables; the    *)
(* variables of the other components stay at their initial values.         *)
(***************************************************************************)
EXTENDS Integers, Sequences, FiniteSets, TLC

VARIABLES
    reddit_posts,     \* table reddit_posts: a set of rows
    reddit_comments,  \* table reddit_comments: a set of rows
    db_last,          \* the last statement run on the connection and its outcome
    cnx_view,         \* the tables as the connection's open transaction sees them
    \* bs4_scraper.main, the link-following loop
    c_limit,          \* args.limit
    c_max_pages,      \* args.max_pages
    collected,        \* collected: the admitted records, in order
    seen,             \* seen: the keys admitted in this run
    pages,            \* pages: the number of pages requested in this run
    delays,           \* history: the politeness delays fetch_page has taken in this run
    soup,             \* soup: the pagination marker of the document fetched last
    page_n,           \* the number of records of page_posts examined so far
    c_pc,             \* the position in main
    earlier,          \* the keys admitted in earlier runs
    \* comment_scraper.fetch_comments_flat
    f_data,           \* data = r.json(): the response
    f_out,            \* the list returned
    f_pc,             \* "call", "returned" or "raised"
    \* reddit_scraper.fetch_posts and _fetch_posts_via_search_time_paging
    p_total_limit,    \* total_limit
    p_sort,           \* sort
    p_batch_size,     \* batch_size
    p_max_empty_pages,\* max_empty_pages
    p_collected,      \* collected
    p_seen_ids,       \* seen_ids
    p_page_items,     \* page_items (listing phase), batch (time-window phase)
    p_empty_pages,    \* empty_pages
    p_yielded,        \* the number of submissions the current generator has yielded
    p_upper,          \* upper
    p_oldest_ts,      \* oldest_ts: <<>> for None, <<ts>> otherwise
    p_pc,             \* the position in fetch_posts
    h_empty_run,      \* history: listing pages in a row that ended with no new item
    h_window,         \* history: the time-window phase was entered
    h_empty_window,   \* history: a window ended with no new item
    \* main.main and its one_cycle
    m_poll,           \* args.poll_seconds
    m_max,            \* args.max_posts_for_comments
    seen_comment_posts, \* seen_comment_posts
    m_post_rows,      \* post_rows (with fetched_at_utc once upsert_posts was called)
    m_i,              \* the position of the for loop in post_rows[:m]
    m_pc,             \* the position in main
    m_scraped,        \* len(posts) of this cycle
    m_last,           \* history: the outcome of the latest loop iteration
    m_attempts,       \* history: the positions comment-fetched in this cycle
    m_start_seen,     \* history: seen_comment_posts when this cycle began
    m_cycles,         \* history: the cycles begun, counted up to MaxCycles
    \* bs4_scraper.parse_score
    s_text,           \* text: a sequence of characters
    s_result,         \* the value returned: <<>> for None, <<n>> for the integer n
    s_pc,             \* "call", "returned" or "raised"
    \* bs4_scraper.extract_posts, the timestamp of one post
    t_tag,            \* what the <time> tag of the post holds
    t_record,         \* the record appended to results
    t_pc              \* "call" or "appended"

storeVars == <<reddit_posts, reddit_comments, db_last, cnx_view>>

crawlVars == <<c_limit, c_max_pages, collected, seen, pages, delays, soup, page_n, c_pc,
               earlier>>

flatVars == <<f_data, f_out, f_pc>>

fetchVars == <<p_total_limit, p_sort, p_batch_size, p_max_empty_pages, p_collected,
               p_seen_ids, p_page_items, p_empty_pages, p_yielded, p_upper,
               p_oldest_ts, p_pc, h_empty_run, h_window, h_empty_window>>

cycleVars == <<m_poll, m_max, seen_comment_posts, m_post_rows, m_i, m_pc, m_scraped,
               m_last, m_attempts, m_start_seen, m_cycles>>

scoreVars == <<s_text, s_result, s_pc>>

timeVars == <<t_tag, t_record, t_pc>>

unitVars == <<scoreVars, timeVars>>

vars == <<storeVars, crawlVars, flatVars, fetchVars, cycleVars, unitVars>>

(***************************************************************************)
(* Values.  Python's None and SQL's NULL are the one value None.           *)
(***************************************************************************)
None == "<None>"

\* Largest number of rows handed to one upsert call.
MaxBatch == 2

\* Readings of int(time.time()).
Times == {100, 200}

PostIds == {"t3_a", "t3_b"}
Permalinks == {None, "/r/x/1", "/r/x/2"}

\* The columns of a post row other than post_id and permalink, as scraped at
\* two different moments.
PostValues ==
    { [subreddit |-> "tech", title |-> "old title", author |-> "u1",
       url |-> "http://u/1", data_domain |-> "d1.com", score |-> 1,
       created_utc |-> 10],
      [subreddit |-> "cyber", title |-> "new title", author |-> "u2",
       url |-> "http://u/2", data_domain |-> "d2.com", score |-> 2,
       created_utc |-> 20] }

\* A row as to_post_row builds it (no fetched_at_utc yet).
PostRow(id, pl, v) ==
    [post_id |-> id, subreddit |-> v.subreddit, title |-> v.title,
     author |-> v.author, url |-> v.url, permalink |-> pl,
     data_domain |-> v.data_domain, score |-> v.score,
     created_utc |-> v.created_utc]

PostRows == { PostRow(id, pl, v) : id \in PostIds, pl \in Permalinks, v \in PostValues }

\* The post rows used where the comments table is explored: one per post id.
ParentPostRows ==
    { PostRow(id, None, v) : id \in PostIds,
        v \in {w \in PostValues : w.subreddit = "tech"} }

CommentIds == {"t1_c", "t1_d"}

\* The columns of a comment other than comment_id and post_id, at two moments.
CommentValues ==
    { [parent_id |-> "t3_a", author |-> "u1", body |-> "old body", score |-> 1,
       created_utc |-> 11],
      [parent_id |-> "t1_c", author |-> "u2", body |-> "new body", score |-> 2,
       created_utc |-> 21] }

CommentRow(cid, pid, v) ==
    [comment_id |-> cid, post_id |-> pid, parent_id |-> v.parent_id,
     author |-> v.author, body |-> v.body, score |-> v.score,
     created_utc |-> v.created_utc]

CommentRows == { CommentRow(c, p, v) : c \in CommentIds, p \in PostIds, v \in CommentValues }

\* The argument lists of one call: every sequence of at most MaxBatch rows.
Batches(S) == UNION { [1..n -> S] : n \in 0..MaxBatch }

(***************************************************************************)
(* The store: POSTS_SCHEMA, COMMENTS_SCHEMA and the two upsert statements, *)
(* with MySQL/InnoDB's semantics of INSERT ... ON DUPLICATE KEY UPDATE:    *)
(* a row that duplicates a value of the PRIMARY KEY or of a UNIQUE index   *)
(* updates the row it duplicates (the primary key is looked up first);     *)
(* an update that would itself duplicate a unique value is an error; the   *)
(* foreign key is checked when a row is inserted; an error rolls the       *)
(* whole multi-row statement back.                                         *)
(***************************************************************************)

\* NOT NULL columns of reddit_posts (fetched_at_utc is always the integer now).
PostNotNullOk(r) ==
    /\ r.post_id # None
    /\ r.subreddit # None
    /\ r.title # None

PostDuplicates_PrimaryKeyOnly(T, r) == {x \in T : x.post_id = r.post_id}

\* The stored rows a new row duplicates: by PRIMARY KEY, else by uniq_permalink
\* (a NULL permalink duplicates nothing).
PostDuplicates(T, r) ==
    IF \E x \in T : x.post_id = r.post_id
    THEN {x \in T : x.post_id = r.post_id}
    ELSE {x \in T : r.permalink # None /\ x.permalink = r.permalink}

\* ON DUPLICATE KEY UPDATE ... of upsert_posts: the stored row x after the update.
OnDuplicateKeyUpdatePost(x, r) ==
    [x EXCEPT !.title = r.title, !.author = r.author, !.url = r.url,
              !.permalink = r.permalink, !.data_domain = r.data_domain,
              !.score = r.score, !.created_utc = r.created_utc,
              !.fetched_at_utc = r.fetched_at_utc]

\* One row of the INSERT of upsert_posts applied to table T.
InsertPostRow(T, r) ==
    IF ~PostNotNullOk(r) THEN [ok |-> FALSE, rows |-> T]
    ELSE LET dup == PostDuplicates(T, r) IN
         IF dup = {} THEN [ok |-> TRUE, rows |-> T \cup {r}]
         ELSE LET x == CHOOSE y \in dup : TRUE
                  u == OnDuplicateKeyUpdatePost(x, r)
              IN IF u.permalink # None
                    /\ \E y \in T \ {x} : y.permalink = u.permalink
                 THEN [ok |-> FALSE, rows |-> T]
                 ELSE [ok |-> TRUE, rows |-> (T \ {x}) \cup {u}]

\* The table after a statement that started on table T and ran to res: a
\* statement that raises is rolled back as a whole.
StatementOutcome(T, res) ==
    IF res.ok THEN res ELSE [ok |-> FALSE, rows |-> T]

\* cur.executemany(sql, posts): the rows in order, as one multi-row statement;
\* rows is the table where the statement stopped.
RECURSIVE ExecuteManyPosts(_, _, _)
ExecuteManyPosts(T, rows, i) ==
    IF i > Len(rows) THEN [ok |-> TRUE, rows |-> T]
    ELSE LET one == InsertPostRow(T, rows[i]) IN
         IF one.ok THEN ExecuteManyPosts(one.rows, rows, i + 1)
         ELSE [ok |-> FALSE, rows |-> T]

\* d["fetched_at_utc"] = now: the key is set in the dict d, added or overwritten.
SetFetchedAt(d, now) ==
    [k \in DOMAIN d \cup {"fetched_at_utc"} |->
        IF k = "fetched_at_utc" THEN now ELSE d[k]]

\* Lines 62-65 and 93-96: the dicts of the caller's list after the call; an
\* empty list returns before the loop.
StampRows(rows, now) == [i \in DOMAIN rows |-> SetFetchedAt(rows[i], now)]

\* upsert_posts(cnx, posts) at time now: the outcome and the table afterwards.
upsert_posts(T, posts, now) ==
    IF posts = <<>> THEN [ok |-> TRUE, rows |-> T]
    ELSE StatementOutcome(T, ExecuteManyPosts(T, StampRows(posts, now), 1))

\* NOT NULL columns of reddit_comments (fetched_at_utc is always the integer now).
CommentNotNullOk(c) ==
    /\ c.comment_id # None
    /\ c.post_id # None

OnDuplicateKeyUpdateComment_AlsoParent(x, c) ==
    [x EXCEPT !.parent_id = c.parent_id, !.author = c.author, !.body = c.body,
              !.score = c.score, !.created_utc = c.created_utc,
              !.fetched_at_utc = c.fetched_at_utc]

\* ON DUPLICATE KEY UPDATE ... of upsert_comments.
OnDuplicateKeyUpdateComment(x, c) ==
    [x EXCEPT !.author = c.author, !.body = c.body, !.score = c.score,
              !.created_utc = c.created_utc,
              !.fetched_at_utc = c.fetched_at_utc]

ForeignKeyOk_Unchecked(P, c) == TRUE

\* CONSTRAINT fk_comments_post: the parent row exists.
ForeignKeyOk(P, c) == \E p \in P : p.post_id = c.post_id

\* One row of the INSERT of upsert_comments, with posts table P, comments table T.
InsertCommentRow(P, T, c) ==
    IF ~CommentNotNullOk(c) THEN [ok |-> FALSE, rows |-> T]
    ELSE LET dup == {x \in T : x.comment_id = c.comment_id} IN
         IF dup # {}
         THEN LET x == CHOOSE y \in dup : TRUE
              IN [ok |-> TRUE, rows |-> (T \ {x}) \cup {OnDuplicateKeyUpdateComment(x, c)}]
         ELSE IF ForeignKeyOk(P, c)
              THEN [ok |-> TRUE, rows |-> T \cup {c}]
              ELSE [ok |-> FALSE, rows |-> T]

\* cur.executemany(sql, comments): the rows in order, as one multi-row statement.
RECURSIVE ExecuteManyComments(_, _, _, _)
ExecuteManyComments(P, T, rows, i) ==
    IF i > Len(rows) THEN [ok |-> TRUE, rows |-> T]
    ELSE LET one == InsertCommentRow(P, T, rows[i]) IN
         IF one.ok THEN ExecuteManyComments(P, one.rows, rows, i + 1)
         ELSE [ok |-> FALSE, rows |-> T]

\* upsert_comments(cnx, comments) at time now.
upsert_comments(P, T, comments, now) ==
    IF comments = <<>> THEN [ok |-> TRUE, rows |-> T]
    ELSE StatementOutcome(T, ExecuteManyComments(P, T, StampRows(comments, now), 1))

\* init_schema on an empty database.
StoreInit ==
    /\ reddit_posts = {}
    /\ reddit_comments = {}
    /\ db_last = [op |-> "init_schema", ok |-> TRUE]
    /\ cnx_view = [posts |-> {}, comments |-> {}]

\* The store is not used.
StoreIdle == StoreInit

(***************************************************************************)
(* The link-following loop of bs4_scraper.main.                            *)
(***************************************************************************)

\* Largest --limit, largest --max-pages, and most records on one page.
MaxLimit == 2
MaxPagesArg == 2
MaxPageLen == 2

\* Records as extract_posts returns them (the fields the loop reads).  author is
\* never empty: extract_posts turns a missing author into "[deleted]".
Records ==
    { [post_id |-> "a", permalink |-> "b", title |-> "", author |-> "a"],
      [post_id |-> "b", permalink |-> "a", title |-> "", author |-> "a"],
      [post_id |-> "", permalink |-> "a", title |-> "b", author |-> "b"],
      [post_id |-> "", permalink |-> "", title |-> "a", author |-> "b"],
      [post_id |-> "", permalink |-> "", title |-> "", author |-> "ab"],
      [post_id |-> "", permalink |-> "", title |-> "b", author |-> "a"] }

\* What get_next_page_url reads of a document: span.next-button, its <a>, the href.
Soups ==
    { [has_button |-> FALSE, has_a |-> FALSE, href |-> None],
      [has_button |-> TRUE, has_a |-> FALSE, href |-> None],
      [has_button |-> TRUE, has_a |-> TRUE, href |-> None],
      [has_button |-> TRUE, has_a |-> TRUE, href |-> ""],
      [has_button |-> TRUE, has_a |-> TRUE, href |-> "/r/x/?after=t3_a"] }

NoSoup == [has_button |-> FALSE, has_a |-> FALSE, href |-> None]

\* Python's truth value of a str | None.
Truthy(x) == x # None /\ x # ""

RecordKey_PermalinkFirst(p) ==
    IF Truthy(p.permalink) THEN p.permalink
    ELSE IF Truthy(p.post_id) THEN p.post_id
    ELSE p.title \o p.author

\* key = p["post_id"] or p["permalink"] or (p["title"] + p["author"])
RecordKey(p) ==
    IF Truthy(p.post_id) THEN p.post_id
    ELSE IF Truthy(p.permalink) THEN p.permalink
    ELSE p.title \o p.author

\* get_next_page_url(soup)
get_next_page_url(s) ==
    IF ~s.has_button THEN None
    ELSE IF s.has_a THEN s.href ELSE None

\* The body of "for p in page_posts" for one record: the lists afterwards and
\* whether the loop breaks.
ForBody(col, sn, p, limit) ==
    LET key == RecordKey(p) IN
    IF key \in sn
    THEN [collected |-> col, seen |-> sn, brk |-> FALSE]
    ELSE [collected |-> Append(col, p), seen |-> sn \cup {key},
          brk |-> Len(col) + 1 >= limit]

ContinueAfterPage_IgnoreMaxPages(col, limit, s, pg, max_pages) ==
    /\ ~(Len(col) >= limit)
    /\ Truthy(get_next_page_url(s))

ContinueAfterPage_IgnoreNextUrl(col, limit, s, pg, max_pages) ==
    /\ ~(Len(col) >= limit)
    /\ ~(pg >= max_pages)

\* Lines 279-290: whether the while loop goes on after a page.
ContinueAfterPage(col, limit, s, pg, max_pages) ==
    /\ ~(Len(col) >= limit)
    /\ Truthy(get_next_page_url(s))
    /\ ~(pg >= max_pages)

\* write_csv(args.out, collected[: args.limit])
Result == SubSeq(collected, 1, IF Len(collected) < c_limit THEN Len(collected) ELSE c_limit)

CrawlStart ==
    /\ collected = <<>>
    /\ seen = {}
    /\ pages = 0
    /\ delays = 0
    /\ soup = NoSoup
    /\ page_n = 0
    /\ c_pc = "while"

CrawlInit(limits, maxpages) ==
    /\ c_limit \in limits
    /\ c_max_pages \in maxpages
    /\ earlier = {}
    /\ CrawlStart

\* The loop is not running.
CrawlIdle ==
    /\ c_limit = 0
    /\ c_max_pages = 0
    /\ earlier = {}
    /\ CrawlStart

\* fetch_page, lines 57-58: time.sleep(2) follows r.raise_for_status(), so it
\* is reached when the request gave a response without error status.
DelaysAfter(n, succeeded) == IF succeeded THEN n + 1 ELSE n

\* while len(collected) < args.limit: false.
WhileExit ==
    /\ c_pc = "while"
    /\ ~(Len(collected) < c_limit)
    /\ c_pc' = "done"
    /\ UNCHANGED <<c_limit, c_max_pages, collected, seen, pages, delays, soup, page_n,
                   earlier>>
    /\ UNCHANGED <<storeVars, flatVars, fetchVars, cycleVars, unitVars>>

\* pages += 1; soup = fetch_page(url, ...) returns a document: the request
\* succeeds, raise_for_status() passes and time.sleep(2) is taken.
FetchPage ==
    /\ c_pc = "while"
    /\ Len(collected) < c_limit
    /\ \E s \in Soups : soup' = s
    /\ pages' = pages + 1
    /\ delays' = DelaysAfter(delays, TRUE)
    /\ page_n' = 0
    /\ c_pc' = "for"
    /\ UNCHANGED <<c_limit, c_max_pages, collected, seen, earlier>>
    /\ UNCHANGED <<storeVars, flatVars, fetchVars, cycleVars, unitVars>>

\* pages += 1; fetch_page raises (session.get or r.raise_for_status()), which
\* leaves fetch_page before line 58.
FetchPageRaises ==
    /\ c_pc = "while"
    /\ Len(collected) < c_limit
    /\ pages' = pages + 1
    /\ delays' = DelaysAfter(delays, FALSE)
    /\ c_pc' = "raised"
    /\ UNCHANGED <<c_limit, c_max_pages, collected, seen, soup, page_n, earlier>>
    /\ UNCHANGED <<storeVars, flatVars, fetchVars, cycleVars, unitVars>>

\* One iteration of "for p in page_posts".
ForRecord ==
    /\ c_pc = "for"
    /\ page_n < MaxPageLen
    /\ \E p \in Records :
          LET b == ForBody(collected, seen, p, c_limit) IN
          /\ collected' = b.collected
          /\ seen' = b.seen
          /\ c_pc' = IF b.brk THEN "after_for" ELSE "for"
    /\ page_n' = page_n + 1
    /\ UNCHANGED <<c_limit, c_max_pages, pages, delays, soup, earlier>>
    /\ UNCHANGED <<storeVars, flatVars, fetchVars, cycleVars, unitVars>>

\* page_posts is exhausted.
ForEnd ==
    /\ c_pc = "for"
    /\ c_pc' = "after_for"
    /\ UNCHANGED <<c_limit, c_max_pages, collected, seen, pages, delays, soup, page_n,
                   earlier>>
    /\ UNCHANGED <<storeVars, flatVars, fetchVars, cycleVars, unitVars>>

\* Lines 279-290: the three breaks after a page.
AfterPage ==
    /\ c_pc = "after_for"
    /\ c_pc' = IF ContinueAfterPage(collected, c_limit, soup, pages, c_max_pages)
               THEN "while" ELSE "done"
    /\ UNCHANGED <<c_limit, c_max_pages, collected, seen, pages, delays, soup, page_n,
                   earlier>>
    /\ UNCHANGED <<storeVars, flatVars, fetchVars, cycleVars, unitVars>>

\* main is run again: collected and seen are new and empty.
StartRun ==
    /\ c_pc \in {"done", "raised"}
    /\ earlier' = earlier \cup seen
    /\ collected' = <<>>
    /\ seen' = {}
    /\ pages' = 0
    /\ delays' = 0
    /\ soup' = NoSoup
    /\ page_n' = 0
    /\ c_pc' = "while"
    /\ UNCHANGED <<c_limit, c_max_pages>>
    /\ UNCHANGED <<storeVars, flatVars, fetchVars, cycleVars, unitVars>>

(***************************************************************************)
(* comment_scraper.fetch_comments_flat.                                    *)
(* The comment listing of a response is a forest over the nodes 1..n:      *)
(* parent[i] is the node whose replies hold node i (0: the top-level       *)
(* listing), kind[i] is "t1" (a comment) or "more" (a placeholder), and    *)
(* the children of a node are listed in increasing order.  A node's        *)
(* parent_id is the name of its parent, the post's fullname at top level.  *)
(***************************************************************************)

\* Most nodes in one response.
MaxNodes == 5

PostFullname == "t3_p"

NodeName(i) == <<"t1_1", "t1_2", "t1_3", "t1_4", "t1_5", "t1_6", "t1_7", "t1_8">>[i]

\* The responses: data that is no two-element list, a post listing without
\* children, and every forest of at most MaxNodes nodes.
Responses ==
    { [shape |-> sh, n |-> 0, parent |-> <<>>, kind |-> <<>>] :
        sh \in {"no_list", "short_list", "no_post"} }
    \cup
    UNION { { [shape |-> "ok", n |-> n, parent |-> par, kind |-> kd] :
                par \in {f \in [1..n -> 0..n] : \A i \in 1..n : f[i] < i},
                kd \in [1..n -> {"t1", "more"}] } : n \in 0..MaxNodes }

\* The "children" list under node p (0: data[1]["data"]["children"]).
Children(d, p) ==
    SelectSeq([i \in 1..d.n |-> i], LAMBDA i : d.parent[i] = p)

\* cdata of node i.
ParentName(d, i) == IF d.parent[i] = 0 THEN PostFullname ELSE NodeName(d.parent[i])

\* cdata.get("replies") is a dict: the node has replies ("" when it has none).
RepliesIsDict(d, i) == Children(d, i) # <<>>

\* The dict appended for comment node i.
CommentDict(d, i) ==
    [comment_id |-> NodeName(i), post_id |-> PostFullname,
     parent_id |-> ParentName(d, i), author |-> "u", body |-> "text",
     score |-> i, created_utc |-> i]

RECURSIVE walk_ThroughMore(_, _)
walk_ThroughMore(d, children) ==
    IF children = <<>> THEN <<>>
    ELSE LET child == Head(children) IN
         (IF d.kind[child] # "t1" THEN <<>> ELSE <<CommentDict(d, child)>>)
         \o (IF RepliesIsDict(d, child)
             THEN walk_ThroughMore(d, Children(d, child)) ELSE <<>>)
         \o walk_ThroughMore(d, Tail(children))

RECURSIVE walk_RepliesLast(_, _)
walk_RepliesLast(d, children) ==
    IF children = <<>> THEN <<>>
    ELSE LET child == Head(children) IN
         IF d.kind[child] # "t1" THEN walk_RepliesLast(d, Tail(children))
         ELSE <<CommentDict(d, child)>>
              \o walk_RepliesLast(d, Tail(children))
              \o (IF RepliesIsDict(d, child)
                  THEN walk_RepliesLast(d, Children(d, child)) ELSE <<>>)

\* walk(children): what it appends to out.
RECURSIVE walk(_, _)
walk(d, children) ==
    IF children = <<>> THEN <<>>
    ELSE LET child == Head(children) IN
         IF d.kind[child] # "t1" THEN walk(d, Tail(children))
         ELSE <<CommentDict(d, child)>>
              \o (IF RepliesIsDict(d, child)
                  THEN walk(d, Children(d, child)) ELSE <<>>)
              \o walk(d, Tail(children))

\* fetch_comments_flat(permalink), given the response data.
fetch_comments_flat(d) ==
    IF d.shape \in {"no_list", "short_list"} THEN <<>>
    ELSE IF d.shape = "no_post" THEN <<>>
    ELSE walk(d, Children(d, 0))

FlatIdle ==
    /\ f_data = [shape |-> "no_list", n |-> 0, parent |-> <<>>, kind |-> <<>>]
    /\ f_out = <<>>
    /\ f_pc = "returned"

\* The request succeeded and the list is returned.
FlatReturns ==
    /\ f_pc = "call"
    /\ f_out' = fetch_comments_flat(f_data)
    /\ f_pc' = "returned"
    /\ UNCHANGED f_data
    /\ UNCHANGED <<storeVars, crawlVars, fetchVars, cycleVars, unitVars>>

\* requests.get or r.raise_for_status() raises.
FlatRaises ==
    /\ f_pc = "call"
    /\ f_pc' = "raised"
    /\ UNCHANGED <<f_data, f_out>>
    /\ UNCHANGED <<storeVars, crawlVars, fetchVars, cycleVars, unitVars>>

(***************************************************************************)
(* reddit_scraper.fetch_posts: the listing phase and the time-window phase.*)
(* A listing (sr.new, sr.hot, sr.top, sr.search) is a lazy generator: each *)
(* step of "for submission in ..." yields a submission, ends the listing   *)
(* or raises.  The source may yield any submission.                        *)
(***************************************************************************)

\* Largest total_limit.
MaxTotalLimit == 2

\* int(time.time()) when the time-window phase starts.
NowTs == 9

\* The submissions of the subreddit: id and created_utc.
Submissions ==
    { [id |-> "x", created_utc |-> 7],
      [id |-> "y", created_utc |-> 5],
      [id |-> "z", created_utc |-> 5] }

Sorts == {"new", "NEW", "hot", "top", "rising"}

\* sort.lower()
Lower(x) == IF x = "NEW" THEN "new" ELSE x

BatchSizes == {1, 500}

\* max_empty_pages (3 unless the caller says otherwise).
MaxEmptyPagesArgs == {1, 3}

MinOf(a, b) == IF a <= b THEN a ELSE b

\* limit = min(batch_size, total_limit - len(collected))
ListingLimit == MinOf(p_batch_size, p_total_limit - Len(p_collected))

FallsBack_AnySort(col, total_limit, sort) ==
    Len(col) < total_limit

\* Line 108: the time-window phase follows the listing phase.
FallsBack(col, total_limit, sort) ==
    Len(col) < total_limit /\ Lower(sort) = "new"

FetchStart ==
    /\ p_collected = <<>>
    /\ p_seen_ids = {}
    /\ p_page_items = <<>>
    /\ p_empty_pages = 0
    /\ p_yielded = 0
    /\ p_upper = 0
    /\ p_oldest_ts = <<>>
    /\ p_pc = "call"
    /\ h_empty_run = 0
    /\ h_window = FALSE
    /\ h_empty_window = FALSE

\* fetch_posts is not running.
FetchIdle ==
    /\ p_total_limit = 0
    /\ p_sort = "new"
    /\ p_batch_size = 500
    /\ p_max_empty_pages = 3
    /\ FetchStart

fetchCfg == <<p_total_limit, p_sort, p_batch_size, p_max_empty_pages>>

fetchHist == <<h_empty_run, h_window, h_empty_window>>

\* total_limit <= 0: return [].
ReturnEmpty ==
    /\ p_pc = "call"
    /\ p_total_limit <= 0
    /\ p_pc' = "done"
    /\ UNCHANGED <<fetchCfg, p_collected, p_seen_ids, p_page_items, p_empty_pages,
                   p_yielded, p_upper, p_oldest_ts, fetchHist>>
    /\ UNCHANGED <<storeVars, crawlVars, flatVars, cycleVars, unitVars>>

\* Lines 35-51: the loop test, the listing for the sort mode, page_items = [].
ListingOpen ==
    /\ \/ p_pc = "call" /\ p_total_limit > 0
       \/ p_pc = "while"
    /\ Len(p_collected) < p_total_limit
    /\ IF Lower(p_sort) \in {"new", "hot", "top"}
       THEN /\ p_pc' = "iter"
            /\ p_page_items' = <<>>
            /\ p_yielded' = 0
       ELSE /\ p_pc' = "raised"
            /\ UNCHANGED <<p_page_items, p_yielded>>
    /\ UNCHANGED <<fetchCfg, p_collected, p_seen_ids, p_empty_pages, p_upper,
                   p_oldest_ts, fetchHist>>
    /\ UNCHANGED <<storeVars, crawlVars, flatVars, cycleVars, unitVars>>

AlreadyHave_Never(id, seen_ids) == FALSE

\* Lines 56 and 156: if submission.id in seen_ids: continue
AlreadyHave(id, seen_ids) == id \in seen_ids

\* Lines 53-80: the listing yields one submission.
ListingYield ==
    /\ p_pc = "iter"
    /\ p_yielded < ListingLimit
    /\ \E sub \in Submissions :
          IF AlreadyHave(sub.id, p_seen_ids)
          THEN /\ UNCHANGED <<p_seen_ids, p_page_items>>
               /\ p_pc' = "iter"
          ELSE /\ p_seen_ids' = p_seen_ids \cup {sub.id}
               /\ p_page_items' = Append(p_page_items, sub)
               /\ p_pc' = IF Len(p_collected) + Len(p_page_items) + 1 >= p_total_limit
                          THEN "after_iter" ELSE "iter"
    /\ p_yielded' = p_yielded + 1
    /\ UNCHANGED <<fetchCfg, p_collected, p_empty_pages, p_upper, p_oldest_ts, fetchHist>>
    /\ UNCHANGED <<storeVars, crawlVars, flatVars, cycleVars, unitVars>>

\* The listing is exhausted.
ListingEnd ==
    /\ p_pc = "iter"
    /\ p_pc' = "after_iter"
    /\ UNCHANGED <<fetchCfg, p_collected, p_seen_ids, p_page_items, p_empty_pages,
                   p_yielded, p_upper, p_oldest_ts, fetchHist>>
    /\ UNCHANGED <<storeVars, crawlVars, flatVars, cycleVars, unitVars>>

\* Lines 82-86: the listing raises; back off and continue the while loop.
ListingRaises ==
    /\ p_pc = "iter"
    /\ p_pc' = "while"
    /\ UNCHANGED <<fetchCfg, p_collected, p_seen_ids, p_page_items, p_empty_pages,
                   p_yielded, p_upper, p_oldest_ts, fetchHist>>
    /\ UNCHANGED <<storeVars, crawlVars, flatVars, cycleVars, unitVars>>

\* Lines 108-118 and 127-132: leave the listing phase with the list col.
LeaveListing(col) ==
    IF FallsBack(col, p_total_limit, p_sort)
    THEN /\ p_pc' = "wwhile"
         /\ p_collected' = col
         /\ p_seen_ids' = {col[i].id : i \in DOMAIN col}
         /\ p_upper' = NowTs
         /\ h_window' = TRUE
    ELSE /\ p_pc' = "done"
         /\ p_collected' = SubSeq(col, 1, MinOf(Len(col), p_total_limit))
         /\ UNCHANGED <<p_seen_ids, p_upper, h_window>>

\* Lines 88-104: the end of a listing page.
ListingPageDone ==
    /\ p_pc = "after_iter"
    /\ h_empty_run' = IF p_page_items = <<>> THEN h_empty_run + 1 ELSE 0
    /\ IF p_page_items = <<>>
       THEN /\ p_empty_pages' = p_empty_pages + 1
            /\ IF p_empty_pages + 1 >= p_max_empty_pages
               THEN LeaveListing(p_collected)
               ELSE /\ p_pc' = "while"
                    /\ UNCHANGED <<p_collected, p_seen_ids, p_upper, h_window>>
       ELSE /\ p_empty_pages' = 0
            /\ IF Len(p_collected) + Len(p_page_items) >= p_total_limit
               THEN LeaveListing(p_collected \o p_page_items)
               ELSE /\ p_pc' = "while"
                    /\ p_collected' = p_collected \o p_page_items
                    /\ UNCHANGED <<p_seen_ids, p_upper, h_window>>
    /\ UNCHANGED <<fetchCfg, p_page_items, p_yielded, p_oldest_ts, h_empty_window>>
    /\ UNCHANGED <<storeVars, crawlVars, flatVars, cycleVars, unitVars>>

\* Lines 135-136 and 118: the loop test of the time-window phase.
WindowTest ==
    /\ p_pc = "wwhile"
    /\ p_pc' = IF Len(p_collected) < p_total_limit THEN "wsearch" ELSE "done"
    /\ UNCHANGED <<fetchCfg, p_collected, p_seen_ids, p_page_items, p_empty_pages,
                   p_yielded, p_upper, p_oldest_ts, fetchHist>>
    /\ UNCHANGED <<storeVars, crawlVars, flatVars, cycleVars, unitVars>>

\* Lines 137-153: sr.search(...) returns; batch = [], oldest_ts = None.
WindowOpen ==
    /\ p_pc = "wsearch"
    /\ p_pc' = "witer"
    /\ p_page_items' = <<>>
    /\ p_oldest_ts' = <<>>
    /\ p_yielded' = 0
    /\ UNCHANGED <<fetchCfg, p_collected, p_seen_ids, p_empty_pages, p_upper, fetchHist>>
    /\ UNCHANGED <<storeVars, crawlVars, flatVars, cycleVars, unitVars>>

\* Lines 147-150: sr.search(...) raises; back off and continue the while loop.
WindowSearchRaises ==
    /\ p_pc = "wsearch"
    /\ p_pc' = "wwhile"
    /\ UNCHANGED <<fetchCfg, p_collected, p_seen_ids, p_page_items, p_empty_pages,
                   p_yielded, p_upper, p_oldest_ts, fetchHist>>
    /\ UNCHANGED <<storeVars, crawlVars, flatVars, cycleVars, unitVars>>

\* Lines 155-183: the search results yield one submission.
WindowYield ==
    /\ p_pc = "witer"
    /\ p_yielded < ListingLimit
    /\ \E sub \in Submissions :
          IF AlreadyHave(sub.id, p_seen_ids)
          THEN /\ UNCHANGED <<p_seen_ids, p_page_items, p_oldest_ts>>
               /\ p_pc' = "witer"
          ELSE /\ p_seen_ids' = p_seen_ids \cup {sub.id}
               /\ p_oldest_ts' = IF p_oldest_ts = <<>> \/ sub.created_utc < p_oldest_ts[1]
                                 THEN <<sub.created_utc>> ELSE p_oldest_ts
               /\ p_page_items' = Append(p_page_items, sub)
               /\ p_pc' = IF Len(p_collected) + Len(p_page_items) + 1 >= p_total_limit
                          THEN "after_witer" ELSE "witer"
    /\ p_yielded' = p_yielded + 1
    /\ UNCHANGED <<fetchCfg, p_collected, p_empty_pages, p_upper, fetchHist>>
    /\ UNCHANGED <<storeVars, crawlVars, flatVars, cycleVars, unitVars>>

\* The search results are exhausted.
WindowEnd ==
    /\ p_pc = "witer"
    /\ p_pc' = "after_witer"
    /\ UNCHANGED <<fetchCfg, p_collected, p_seen_ids, p_page_items, p_empty_pages,
                   p_yielded, p_upper, p_oldest_ts, fetchHist>>
    /\ UNCHANGED <<storeVars, crawlVars, flatVars, cycleVars, unitVars>>

\* The search results raise while they are iterated: nothing catches it.
WindowRaises ==
    /\ p_pc = "witer"
    /\ p_pc' = "raised"
    /\ UNCHANGED <<fetchCfg, p_collected, p_seen_ids, p_page_items, p_empty_pages,
                   p_yielded, p_upper, p_oldest_ts, fetchHist>>
    /\ UNCHANGED <<storeVars, crawlVars, flatVars, cycleVars, unitVars>>

NextUpper_Same(oldest_ts) == oldest_ts

\* Line 193: upper = oldest_ts - 1
NextUpper(oldest_ts) == oldest_ts - 1

\* Lines 185-197 and 118: the end of a window.
WindowDone ==
    /\ p_pc = "after_witer"
    /\ IF p_page_items = <<>>
       THEN /\ p_pc' = "done"
            /\ h_empty_window' = TRUE
            /\ p_collected' = SubSeq(p_collected, 1, MinOf(Len(p_collected), p_total_limit))
            /\ UNCHANGED p_upper
       ELSE /\ h_empty_window' = h_empty_window
            /\ IF p_oldest_ts = <<>>
               THEN /\ p_pc' = "done"
                    /\ p_collected' = SubSeq(p_collected \o p_page_items, 1,
                                             MinOf(Len(p_collected \o p_page_items), p_total_limit))
                    /\ UNCHANGED p_upper
               ELSE /\ p_upper' = NextUpper(p_oldest_ts[1])
                    /\ p_collected' = p_collected \o p_page_items
                    /\ p_pc' = "wwhile"
    /\ UNCHANGED <<fetchCfg, p_seen_ids, p_page_items, p_empty_pages, p_yielded,
                   p_oldest_ts, h_empty_run, h_window>>
    /\ UNCHANGED <<storeVars, crawlVars, flatVars, cycleVars, unitVars>>

(***************************************************************************)
(* The store's actions.                                                    *)
(***************************************************************************)

UpsertPosts(RowSet) ==
    \E posts \in Batches(RowSet), now \in Times :
        LET res == upsert_posts(cnx_view.posts, posts, now) IN
        /\ cnx_view' = [cnx_view EXCEPT !.posts = res.rows]
        /\ IF res.ok
           THEN /\ reddit_posts' = cnx_view'.posts
                /\ reddit_comments' = cnx_view'.comments
           ELSE UNCHANGED <<reddit_posts, reddit_comments>>
        /\ db_last' = [op |-> "upsert_posts", ok |-> res.ok]
        /\ UNCHANGED <<crawlVars, flatVars, fetchVars, cycleVars, unitVars>>

UpsertComments ==
    \E comments \in Batches(CommentRows), now \in Times :
        LET res == upsert_comments(cnx_view.posts, cnx_view.comments, comments, now) IN
        /\ cnx_view' = [cnx_view EXCEPT !.comments = res.rows]
        /\ IF res.ok
           THEN /\ reddit_posts' = cnx_view'.posts
                /\ reddit_comments' = cnx_view'.comments
           ELSE UNCHANGED <<reddit_posts, reddit_comments>>
        /\ db_last' = [op |-> "upsert_comments", ok |-> res.ok]
        /\ UNCHANGED <<crawlVars, flatVars, fetchVars, cycleVars, unitVars>>

\* DELETE of a post row; ON DELETE CASCADE removes the post's comments.
DeletePost ==
    \E id \in PostIds :
        /\ \E p \in reddit_posts : p.post_id = id
        /\ reddit_posts' = {p \in reddit_posts : p.post_id # id}
        /\ reddit_comments' = {c \in reddit_comments : c.post_id # id}
        /\ cnx_view' = [posts |-> {p \in cnx_view.posts : p.post_id # id},
                        comments |-> {c \in cnx_view.comments : c.post_id # id}]
        /\ db_last' = [op |-> "delete_post", ok |-> TRUE]
        /\ UNCHANGED <<crawlVars, flatVars, fetchVars, cycleVars, unitVars>>

UpsertAnyPosts == UpsertPosts(PostRows)

UpsertParentPosts == UpsertPosts(ParentPostRows)


(***************************************************************************)
(* The orchestrator: main.main and its one_cycle.                          *)
(* scrape_posts_bs4 is imported from scripts.bs4_scraper, which does not    *)
(* define it; it is modelled as the fetch of the specification: it returns *)
(* a list of records of the shape extract_posts builds.                    *)
(***************************************************************************)

\* Largest --max-posts-for-comments, and the number up to which the cycles of
\* one process are counted.
MaxForComments == 2
MaxCycles == 2

\* --poll-seconds
PollSeconds == {0, 30}

\* A scraped record: "" where extract_posts found no value.
ScrapedRecord(id, pl, title) ==
    [post_id |-> id, subreddit |-> "tech", data_domain |-> "", title |-> title,
     author |-> "u1", score |-> 1, comments |-> 0, url |-> "http://u/1",
     permalink |-> pl, created_utc |-> 10]

\* What scrape_posts_bs4 may return: nothing, one or two posts in either order,
\* a post whose permalink is another post's, records without an id or without
\* a permalink, a post with an empty title.
ScrapedLists ==
    { <<>>,
      <<ScrapedRecord("t3_a", "/r/x/1", "old title")>>,
      <<ScrapedRecord("t3_a", "/r/x/1", "old title"),
        ScrapedRecord("t3_b", "/r/x/2", "old title")>>,
      <<ScrapedRecord("t3_b", "/r/x/2", "old title"),
        ScrapedRecord("t3_a", "/r/x/1", "old title")>>,
      <<ScrapedRecord("t3_a", "/r/x/1", "old title"),
        ScrapedRecord("t3_b", "/r/x/1", "old title")>>,
      <<ScrapedRecord("t3_b", "/r/x/1", "old title")>>,
      <<ScrapedRecord("", "/r/x/2", "old title"),
        ScrapedRecord("t3_a", "", "old title"),
        ScrapedRecord("t3_b", "/r/x/2", "old title")>>,
      <<ScrapedRecord("t3_a", "/r/x/1", "")>> }

\* Python's "x or d".
Or(x, d) == IF Truthy(x) THEN x ELSE d

to_post_row(p) ==
    [post_id |-> Or(p.post_id, ""), subreddit |-> Or(p.subreddit, ""),
     title |-> Or(p.title, ""), author |-> Or(p.author, None),
     url |-> Or(p.url, None), permalink |-> Or(p.permalink, None),
     data_domain |-> Or(p.data_domain, None), score |-> p.score,
     created_utc |-> p.created_utc]

HasPermalink(p) == Truthy(p.permalink)

HasPostId(r) == Truthy(r.post_id)

prepare_rows_KeepNoId(posts) ==
    LET kept == SelectSeq(posts, HasPermalink)
    IN [i \in DOMAIN kept |-> to_post_row(kept[i])]

\* Lines 44-49: post_rows of the scraped posts.
prepare_rows(posts) ==
    LET kept == SelectSeq(posts, HasPermalink)
    IN SelectSeq([i \in DOMAIN kept |-> to_post_row(kept[i])], HasPostId)

SliceLen_All(n, m) == n

\* len(xs[:m])
SliceLen(n, m) ==
    IF m >= 0 THEN MinOf(m, n)
    ELSE IF n + m >= 0 THEN n + m ELSE 0

\* What fetch_comments_flat may return for the post pid: nothing, comments of
\* the post, a comment whose data has no name, or comments of a response
\* whose post fullname is a post the store does not hold.
CycleComment(cid, pid) ==
    [comment_id |-> cid, post_id |-> pid, parent_id |-> pid, author |-> "u1",
     body |-> "old body", score |-> 1, created_utc |-> 11]

CycleCommentLists(pid) ==
    { <<>>,
      <<CycleComment("t1_c", pid)>>,
      <<CycleComment("t1_c", pid), CycleComment("t1_d", pid)>>,
      <<CycleComment("t1_d", pid), CycleComment(None, pid)>>,
      <<CycleComment("t1_d", "t3_zz")>> }

NoIteration == [post |-> None, fetch |-> "none", store |-> "none", passed |-> <<>>]

PollsAgain_Always(poll) == TRUE

\* Line 69: the cycle is repeated.
PollsAgain(poll) == ~(poll <= 0)

HandledAfter_Always(handled, id, ok) == handled \cup {id}

\* Lines 59-65: seen_comment_posts after the iteration for the post id.
HandledAfter(handled, id, ok) == IF ok THEN handled \cup {id} ELSE handled

ExceptPosition_Propagates(i) == [pc |-> "raised", i |-> i]

\* Lines 64-65: the except clause prints and the for loop goes on.
ExceptPosition(i) == [pc |-> "for", i |-> i + 1]

CycleStart ==
    /\ seen_comment_posts = {}
    /\ m_post_rows = <<>>
    /\ m_i = 0
    /\ m_pc = "main"
    /\ m_scraped = 0
    /\ m_last = NoIteration
    /\ m_attempts = <<>>
    /\ m_start_seen = {}
    /\ m_cycles = 0

\* main is not running.
CycleIdle ==
    /\ m_poll = 0
    /\ m_max = 0
    /\ CycleStart

cycleCfg == <<m_poll, m_max>>

\* Lines 43-51: scrape and prepare the rows.
Scrape ==
    /\ m_pc = "main"
    /\ \E posts \in ScrapedLists :
          /\ m_post_rows' = prepare_rows(posts)
          /\ m_scraped' = Len(posts)
    /\ m_pc' = "upsert_posts"
    /\ m_i' = 0
    /\ m_last' = NoIteration
    /\ m_attempts' = <<>>
    /\ m_start_seen' = seen_comment_posts
    /\ m_cycles' = MinOf(m_cycles + 1, MaxCycles)
    /\ UNCHANGED <<cycleCfg, seen_comment_posts, storeVars>>
    /\ UNCHANGED <<crawlVars, flatVars, fetchVars, unitVars>>


AfterUpsertPosts_Swallowed(ok) == "for"

\* Line 52: upsert_posts(cnx, post_rows) is called outside any try, so the loop
\* of line 55 is reached when the call returned and an error leaves one_cycle.
AfterUpsertPosts(ok) == IF ok THEN "for" ELSE "raised"

\* Line 52: upsert_posts(cnx, post_rows); an error leaves one_cycle and main.
\* The call sets fetched_at_utc in the dicts of post_rows before its statement
\* runs, whether the statement succeeds or not.
CycleUpsertPosts ==
    /\ m_pc = "upsert_posts"
    /\ \E now \in {200} :
          LET res == upsert_posts(cnx_view.posts, m_post_rows, now) IN
          /\ cnx_view' = [cnx_view EXCEPT !.posts = res.rows]
          /\ IF res.ok
             THEN /\ reddit_posts' = cnx_view'.posts
                  /\ reddit_comments' = cnx_view'.comments
                  /\ m_i' = 1
             ELSE /\ UNCHANGED <<reddit_posts, reddit_comments>>
                  /\ UNCHANGED m_i
          /\ m_pc' = AfterUpsertPosts(res.ok)
          /\ m_post_rows' = StampRows(m_post_rows, now)
          /\ db_last' = [op |-> "upsert_posts", ok |-> res.ok]
    /\ UNCHANGED <<cycleCfg, seen_comment_posts, m_scraped, m_last,
                   m_attempts, m_start_seen, m_cycles>>
    /\ UNCHANGED <<crawlVars, flatVars, fetchVars, unitVars>>

InLoop ==
    /\ m_pc = "for"
    /\ m_i <= SliceLen(Len(m_post_rows), m_max)

\* Lines 56-57: the post is in seen_comment_posts.
ForSkip ==
    /\ InLoop
    /\ m_post_rows[m_i].post_id \in seen_comment_posts
    /\ m_i' = m_i + 1
    /\ m_last' = [NoIteration EXCEPT !.post = m_post_rows[m_i].post_id, !.fetch = "skipped"]
    /\ UNCHANGED <<cycleCfg, seen_comment_posts, m_post_rows, m_pc, m_scraped,
                   m_attempts, m_start_seen, m_cycles, storeVars>>
    /\ UNCHANGED <<crawlVars, flatVars, fetchVars, unitVars>>

\* Lines 59 and 64-65: fetch_comments_flat raises.
ForFetchRaises ==
    /\ InLoop
    /\ m_post_rows[m_i].post_id \notin seen_comment_posts
    /\ m_attempts' = Append(m_attempts, m_i)
    /\ m_last' = [NoIteration EXCEPT !.post = m_post_rows[m_i].post_id, !.fetch = "raised"]
    /\ seen_comment_posts' = HandledAfter(seen_comment_posts, m_post_rows[m_i].post_id, FALSE)
    /\ m_pc' = ExceptPosition(m_i).pc
    /\ m_i' = ExceptPosition(m_i).i
    /\ UNCHANGED <<cycleCfg, m_post_rows, m_scraped, m_start_seen, m_cycles, storeVars>>
    /\ UNCHANGED <<crawlVars, flatVars, fetchVars, unitVars>>

\* Lines 59-65: fetch_comments_flat returns and the comments are stored.
ForStoreComments ==
    /\ InLoop
    /\ m_post_rows[m_i].post_id \notin seen_comment_posts
    /\ m_attempts' = Append(m_attempts, m_i)
    /\ \E comments \in CycleCommentLists(m_post_rows[m_i].post_id), now \in {200} :
          LET res == upsert_comments(cnx_view.posts, cnx_view.comments, comments, now) IN
          /\ IF comments = <<>>
             THEN UNCHANGED storeVars
             ELSE /\ cnx_view' = [cnx_view EXCEPT !.comments = res.rows]
                  /\ IF res.ok
                     THEN /\ reddit_posts' = cnx_view'.posts
                          /\ reddit_comments' = cnx_view'.comments
                     ELSE UNCHANGED <<reddit_posts, reddit_comments>>
                  /\ db_last' = [op |-> "upsert_comments", ok |-> res.ok]
          /\ m_last' = [post |-> m_post_rows[m_i].post_id, fetch |-> "returned",
                        store |-> IF comments = <<>> THEN "none"
                                  ELSE IF res.ok THEN "ok" ELSE "raised",
                        passed |-> StampRows(comments, now)]
          /\ seen_comment_posts' =
                HandledAfter(seen_comment_posts, m_post_rows[m_i].post_id, res.ok)
          /\ IF res.ok
             THEN m_pc' = "for" /\ m_i' = m_i + 1
             ELSE m_pc' = ExceptPosition(m_i).pc /\ m_i' = ExceptPosition(m_i).i
    /\ UNCHANGED <<cycleCfg, m_post_rows, m_scraped, m_start_seen, m_cycles>>
    /\ UNCHANGED <<crawlVars, flatVars, fetchVars, unitVars>>

\* Line 67: the loop is over, "cycle done".
ForEnd_Cycle ==
    /\ m_pc = "for"
    /\ m_i > SliceLen(Len(m_post_rows), m_max)
    /\ m_pc' = "cycle_done"
    /\ UNCHANGED <<cycleCfg, seen_comment_posts, m_post_rows, m_i, m_scraped, m_last,
                   m_attempts, m_start_seen, m_cycles, storeVars>>
    /\ UNCHANGED <<crawlVars, flatVars, fetchVars, unitVars>>

\* Lines 69-70: one cycle, then main returns.
PollExit ==
    /\ m_pc = "cycle_done"
    /\ ~PollsAgain(m_poll)
    /\ m_pc' = "exited"
    /\ UNCHANGED <<cycleCfg, seen_comment_posts, m_post_rows, m_i, m_scraped, m_last,
                   m_attempts, m_start_seen, m_cycles, storeVars>>
    /\ UNCHANGED <<crawlVars, flatVars, fetchVars, unitVars>>

\* Lines 72-74: time.sleep(args.poll_seconds), then the next cycle.
PollSleep ==
    /\ m_pc = "cycle_done"
    /\ PollsAgain(m_poll)
    /\ m_pc' = "main"
    /\ UNCHANGED <<cycleCfg, seen_comment_posts, m_post_rows, m_i, m_scraped, m_last,
                   m_attempts, m_start_seen, m_cycles, storeVars>>
    /\ UNCHANGED <<crawlVars, flatVars, fetchVars, unitVars>>

(***************************************************************************)
(* The score text of a listing entry: bs4_scraper.parse_score.             *)
(* A text is a sequence of characters, each a string.  The value returned  *)
(* is <<>> for None and <<n>> for the integer n.                           *)
(***************************************************************************)

MaxTextLen == 5

ScoreChars == {"0", "1", "2", ".", "k", " "}

\* The bullet glyph U+2022, one character, written "<bullet>" here.
BulletChar == "<bullet>"

Bullet == <<BulletChar>>

ScoreHidden == <<"s", "c", "o", "r", "e", " ", "h", "i", "d", "d", "e", "n">>

Hidden == <<"h", "i", "d", "d", "e", "n">>

\* The texts parse_score is applied to: every text over ScoreChars up to
\* MaxTextLen characters, and the words of line 20 with other texts in
\* upper and lower case.
ScoreTexts ==
    UNION {[1..n -> ScoreChars] : n \in 0..MaxTextLen}
    \cup {Bullet, ScoreHidden, Hidden,
          <<"S", "c", "o", "r", "e", " ", "H", "i", "d", "d", "e", "n">>,
          <<" ", "H", "I", "D", "D", "E", "N", " ">>,
          <<" ", BulletChar, " ">>,
          <<"a", "b", "c">>,
          <<"1", ".", "5", "k">>,
          <<"1", ".", "5", "K">>,
          <<"9", "9", "9">>,
          <<"1", "2", "k", "b">>,
          <<"-", "1">>,
          <<"1", ",", "2", "k">>}

DigitValue ==
    [c \in {"0", "1", "2", "3", "4", "5", "6", "7", "8", "9"} |->
        CASE c = "0" -> 0 [] c = "1" -> 1 [] c = "2" -> 2 [] c = "3" -> 3
          [] c = "4" -> 4 [] c = "5" -> 5 [] c = "6" -> 6 [] c = "7" -> 7
          [] c = "8" -> 8 [] c = "9" -> 9]

UpperToLower ==
    [c \in {"C", "D", "E", "H", "I", "K", "N", "O", "R", "S"} |->
        CASE c = "C" -> "c" [] c = "D" -> "d" [] c = "E" -> "e" [] c = "H" -> "h"
          [] c = "I" -> "i" [] c = "K" -> "k" [] c = "N" -> "n" [] c = "O" -> "o"
          [] c = "R" -> "r" [] c = "S" -> "s"]

\* str.strip(): leading and trailing white space removed.
RECURSIVE LStrip(_)
LStrip(t) == IF t # <<>> /\ Head(t) = " " THEN LStrip(Tail(t)) ELSE t

RECURSIVE RStrip(_)
RStrip(t) ==
    IF t # <<>> /\ t[Len(t)] = " " THEN RStrip(SubSeq(t, 1, Len(t) - 1)) ELSE t

Strip(t) == RStrip(LStrip(t))

\* str.lower()
LowerText(t) ==
    [i \in 1..Len(t) |-> IF t[i] \in DOMAIN UpperToLower THEN UpperToLower[t[i]] ELSE t[i]]

\* \d+
IsDigits(s) == Len(s) > 0 /\ \A i \in 1..Len(s) : s[i] \in DOMAIN DigitValue

\* The positions of the point in a text that matches \d+\.\d+
PointAt(s) ==
    {i \in 2..(Len(s) - 1) :
        s[i] = "." /\ IsDigits(SubSeq(s, 1, i - 1)) /\ IsDigits(SubSeq(s, i + 1, Len(s)))}

\* Line 22: re.match(r"^(\d+(?:\.\d+)?)k$", t)
MatchesK(t) ==
    /\ Len(t) >= 2
    /\ t[Len(t)] = "k"
    /\ LET body == SubSeq(t, 1, Len(t) - 1)
       IN  IsDigits(body) \/ PointAt(body) # {}

\* Line 25: re.match(r"^\d+$", t)
MatchesDigits(t) == IsDigits(t)

\* The integer a digit string denotes, as int() and float() read it.
RECURSIVE DigitsToInt(_)
DigitsToInt(s) ==
    IF s = <<>> THEN 0
    ELSE 10 * DigitsToInt(SubSeq(s, 1, Len(s) - 1)) + DigitValue[s[Len(s)]]

RECURSIVE Pow(_, _)
Pow(b, n) == IF n = 0 THEN 1 ELSE b * Pow(b, n - 1)

\* The binary exponent of num/den: the e with 2^e <= num/den < 2^(e+1).
RECURSIVE ExponentUp(_, _, _)
ExponentUp(num, den, e) ==
    IF num >= den * Pow(2, e + 1) THEN ExponentUp(num, den, e + 1) ELSE e

RECURSIVE ExponentDown(_, _, _)
ExponentDown(num, den, k) ==
    IF num * Pow(2, k) < den THEN ExponentDown(num, den, k + 1) ELSE k

BinaryExponent(num, den) ==
    IF num >= den THEN ExponentUp(num, den, 0) ELSE 0 - ExponentDown(num, den, 0)

\* (r * 2^k) % mod
RECURSIVE ShiftMod(_, _, _)
ShiftMod(r, k, mod) == IF k = 0 THEN r % mod ELSE ShiftMod((2 * r) % mod, k - 1, mod)

\* Line 24: int(float(m.group(1)) * 1000) for the decimal m / scale, scale a
\* power of ten, computed as binary64 arithmetic computes it.  float() rounds
\* the decimal to the nearest number with a 53-bit significand; what it drops
\* is rem / scale units of the last place.  The product is rounded again and
\* int() cuts the fraction off.  When m * 1000 / scale is an integer N and
\* float() rounded down, the product lies below N, and it is rounded to the
\* double just below N, whose integer part is N - 1, when it is nearer to it.
ThousandTimes(m, scale) ==
    LET N == (m * 1000) \div scale
    IN  IF m = 0 THEN 0
        ELSE IF (m * 1000) % scale # 0 THEN N
        ELSE LET e    == BinaryExponent(m, scale)
                 rem  == ShiftMod(m, 52 - e, scale)
                 eN0  == BinaryExponent(N, 1)
                 eN   == IF N = Pow(2, eN0) THEN eN0 - 1 ELSE eN0
             IN  IF rem = 0 \/ 2 * rem > scale THEN N
                 ELSE IF 2000 * rem > scale * Pow(2, eN - e) THEN N - 1 ELSE N

\* Lines 22-24: the value of a text that matches the k pattern.
KValue(t) ==
    LET body == SubSeq(t, 1, Len(t) - 1)
    IN  IF IsDigits(body) THEN ThousandTimes(DigitsToInt(body), 1)
        ELSE LET i == CHOOSE j \in PointAt(body) : TRUE
                 whole == SubSeq(body, 1, i - 1)
                 frac  == SubSeq(body, i + 1, Len(body))
             IN  ThousandTimes(DigitsToInt(whole) * Pow(10, Len(frac)) + DigitsToInt(frac),
                               Pow(10, Len(frac)))

\* Lines 16-28.
parse_score(text) ==
    IF text = <<>> THEN <<>>
    ELSE LET t == LowerText(Strip(text))
         IN  IF t \in {Bullet, ScoreHidden, Hidden} THEN <<>>
             ELSE IF MatchesK(t) THEN <<KValue(t)>>
             ELSE IF MatchesDigits(t) THEN <<DigitsToInt(t)>>
             ELSE <<>>

ScoreIdle == s_text = <<>> /\ s_result = <<>> /\ s_pc = "idle"

\* parse_score is called and returns.
ParseScore ==
    /\ s_pc = "call"
    /\ s_result' = parse_score(s_text)
    /\ s_pc' = "returned"
    /\ UNCHANGED s_text
    /\ UNCHANGED <<storeVars, crawlVars, flatVars, fetchVars, cycleVars, timeVars>>

(***************************************************************************)
(* The timestamp of one post: bs4_scraper.extract_posts, lines 150-171.    *)
(* The datetime attribute is YYYY-MM-DDThh:mm:00 followed by its zone, a   *)
(* day of January 1970; created_utc is <<>> for None and <<n>> for n.      *)
(***************************************************************************)

Days == {1, 2}

Hours == {0, 7, 23}

Minutes == {0, 30}

\* The zone suffixes of the attribute; "" is a datetime without zone.
Zones == {"Z", "+00:00", "+05:30", "-08:00", ""}

\* The minutes east of UTC a zone suffix denotes.
ZoneMinutes == [z \in Zones \ {"", "Z"} |->
    CASE z = "+00:00" -> 0 [] z = "+05:30" -> 330 [] z = "-08:00" -> 0 - 480]

TimeTag(kind, day, hour, minute, zone) ==
    [kind |-> kind, day |-> day, hour |-> hour, minute |-> minute, zone |-> zone]

\* What post.find("time") gives: no tag, a tag without the attribute, a tag
\* whose attribute is no ISO-8601 text, or an ISO-8601 datetime.
TimeTags ==
    {TimeTag(k, 1, 0, 0, "") : k \in {"no_tag", "no_attr", "malformed"}}
    \cup {TimeTag("iso", d, h, m, z) : d \in Days, h \in Hours, m \in Minutes, z \in Zones}

\* Line 154: .replace("Z", "+00:00")
ReplaceZ(zone) == IF zone = "Z" THEN "+00:00" ELSE zone

\* Line 154: datetime.fromisoformat, the fields of the datetime and its
\* tzinfo: <<>> for a naive datetime, <<minutes>> for an offset.
fromisoformat(tag, zone) ==
    [day |-> tag.day, hour |-> tag.hour, minute |-> tag.minute,
     tzinfo |-> IF zone = "" THEN <<>> ELSE <<ZoneMinutes[zone]>>]

\* Line 155: dt.replace(tzinfo=...), the fields kept and tzinfo replaced.
ReplaceTzinfo(dt, minutes) == [dt EXCEPT !.tzinfo = <<minutes>>]

\* Line 155: int(aware.timestamp()), the seconds from 1970-01-01T00:00Z.
Timestamp(dt) ==
    (((dt.day - 1) * 24 + dt.hour) * 60 + dt.minute - dt.tzinfo[1]) * 60

\* Lines 150-157.
created_utc_of(tag) ==
    IF tag.kind \in {"no_tag", "no_attr", "malformed"} THEN <<>>
    ELSE <<Timestamp(ReplaceTzinfo(fromisoformat(tag, ReplaceZ(tag.zone)), 0))>>

TimeIdle ==
    /\ t_tag = TimeTag("no_tag", 1, 0, 0, "")
    /\ t_record = [emitted |-> FALSE, created_utc |-> <<>>]
    /\ t_pc = "idle"

\* Lines 150-171: the timestamp is read and the record is appended.
AppendRecord ==
    /\ t_pc = "call"
    /\ t_record' = [emitted |-> TRUE, created_utc |-> created_utc_of(t_tag)]
    /\ t_pc' = "appended"
    /\ UNCHANGED t_tag
    /\ UNCHANGED <<storeVars, crawlVars, flatVars, fetchVars, cycleVars, scoreVars>>

UnitIdle == ScoreIdle /\ TimeIdle

(***************************************************************************)
(* The specifications.                                                     *)
(***************************************************************************)

Init == StoreInit /\ CrawlIdle /\ FlatIdle /\ FetchIdle /\ CycleIdle /\ UnitIdle

Next == UpsertParentPosts \/ UpsertComments \/ DeletePost

\* The store with both tables.
Spec == Init /\ [][Next]_vars

NextPosts == UpsertAnyPosts

\* The posts table alone, over every post row.
SpecPosts == Init /\ [][NextPosts]_vars

InitCrawl == StoreIdle /\ FlatIdle /\ FetchIdle /\ CycleIdle /\ UnitIdle /\ CrawlInit(0..MaxLimit, 0..MaxPagesArg)

NextCrawl ==
    WhileExit \/ FetchPage \/ FetchPageRaises \/ ForRecord \/ ForEnd \/ AfterPage

\* One run of the loop, for every --limit and --max-pages.
SpecCrawl == InitCrawl /\ [][NextCrawl]_vars

\* One run of the loop, which keeps taking steps until it has ended.
SpecCrawlFair == SpecCrawl /\ WF_vars(NextCrawl)

InitCrawlRuns == StoreIdle /\ FlatIdle /\ FetchIdle /\ CycleIdle /\ UnitIdle /\ CrawlInit({0, MaxLimit}, {MaxPagesArg})

NextCrawlRuns ==
    WhileExit \/ FetchPage \/ FetchPageRaises \/ ForRecord \/ ForEnd \/ AfterPage
        \/ StartRun

\* Run after run of the loop.
SpecCrawlRuns == InitCrawlRuns /\ [][NextCrawlRuns]_vars

InitFlat ==
    /\ StoreIdle
    /\ CrawlIdle
    /\ FetchIdle
    /\ CycleIdle
    /\ UnitIdle
    /\ f_data \in Responses
    /\ f_out = <<>>
    /\ f_pc = "call"

NextFlat == FlatReturns \/ FlatRaises

\* One call of fetch_comments_flat on any response.
SpecFlat == InitFlat /\ [][NextFlat]_vars

InitFetch ==
    /\ StoreIdle
    /\ CrawlIdle
    /\ FlatIdle
    /\ CycleIdle
    /\ UnitIdle
    /\ p_total_limit \in -1..MaxTotalLimit
    /\ p_sort \in Sorts
    /\ p_batch_size \in BatchSizes
    /\ p_max_empty_pages \in MaxEmptyPagesArgs
    /\ FetchStart

NextFetch ==
    \/ ReturnEmpty
    \/ ListingOpen
    \/ ListingYield
    \/ ListingEnd
    \/ ListingRaises
    \/ ListingPageDone
    \/ WindowTest
    \/ WindowOpen
    \/ WindowSearchRaises
    \/ WindowYield
    \/ WindowEnd
    \/ WindowRaises
    \/ WindowDone

\* One call of fetch_posts, for every configuration and every source behaviour.
SpecFetch == InitFetch /\ [][NextFetch]_vars

\* One call of fetch_posts, which keeps taking steps until it returns or raises:
\* its sleeps are finite.
SpecFetchFair == SpecFetch /\ WF_vars(NextFetch)

InitCycle ==
    /\ StoreInit
    /\ CrawlIdle
    /\ FlatIdle
    /\ FetchIdle
    /\ UnitIdle
    /\ m_poll \in PollSeconds
    /\ m_max \in -1..MaxForComments
    /\ CycleStart

NextCycle ==
    \/ Scrape
    \/ CycleUpsertPosts
    \/ ForSkip
    \/ ForFetchRaises
    \/ ForStoreComments
    \/ ForEnd_Cycle
    \/ PollExit
    \/ PollSleep

\* The orchestrator, for every configuration and every behaviour of the sources.
SpecCycle == InitCycle /\ [][NextCycle]_vars

\* The orchestrator keeps taking steps until main returns or raises.
SpecCycleFair == SpecCycle /\ WF_vars(NextCycle)

InitScore ==
    /\ StoreIdle
    /\ CrawlIdle
    /\ FlatIdle
    /\ FetchIdle
    /\ CycleIdle
    /\ TimeIdle
    /\ s_text \in ScoreTexts
    /\ s_result = <<>>
    /\ s_pc = "call"

NextScore == ParseScore

\* One call of parse_score on any score text.
SpecScore == InitScore /\ [][NextScore]_vars

InitTime ==
    /\ StoreIdle
    /\ CrawlIdle
    /\ FlatIdle
    /\ FetchIdle
    /\ CycleIdle
    /\ ScoreIdle
    /\ t_tag \in TimeTags
    /\ t_record = [emitted |-> FALSE, created_utc |-> <<>>]
    /\ t_pc = "call"

NextTime == AppendRecord

\* The timestamp of one post, for every <time> tag.
SpecTime == InitTime /\ [][NextTime]_vars

(***************************************************************************)
(* Claims about the store.                                                 *)
(***************************************************************************)

\* The columns the specification calls mutable hold the values of row r at time now.
HoldsMutableValues(x, r, now) ==
    /\ x.title = r.title
    /\ x.author = r.author
    /\ x.url = r.url
    /\ x.data_domain = r.data_domain
    /\ x.score = r.score
    /\ x.created_utc = r.created_utc
    /\ x.fetched_at_utc = now

\* C1: in every store state, upserting a post row r and then r again (with the
\* same or with other mutable values) leaves exactly one stored row with
\* post_id = r.post_id, and that row holds the values of the second call.
C1_UpsertTwiceLeavesLatestRow ==
    \A r \in PostRows, v \in PostValues, t1 \in Times, t2 \in Times :
        LET r2 == [PostRow(r.post_id, r.permalink, v) EXCEPT !.subreddit = r.subreddit]
            s1 == upsert_posts(reddit_posts, <<r>>, t1)
            s2 == upsert_posts(s1.rows, <<r2>>, t2)
            hit == {x \in s2.rows : x.post_id = r.post_id}
        IN /\ Cardinality(hit) = 1
           /\ \A x \in hit : HoldsMutableValues(x, r2, t2)

StoredPostIds == {p.post_id : p \in reddit_posts}

StoredCommentIds == {c.comment_id : c \in reddit_comments}

\* Every stored comment belongs to a stored post.
ReferentialIntegrity ==
    \A c \in reddit_comments : c.post_id \in StoredPostIds

\* Row i of the batch would be inserted as a new comment: its comment_id is
\* neither stored nor given by an earlier row of the batch.
IsNewComment(batch, i) ==
    /\ batch[i].comment_id \notin StoredCommentIds
    /\ \A j \in 1..(i - 1) : batch[j].comment_id # batch[i].comment_id

\* C2 (as amended): referential integrity holds in every reachable store state,
\* and an upsert_comments call containing a new comment (its comment_id not yet
\* stored) whose post_id matches no stored post is rejected and stores nothing.
C2_ReferentialIntegrity ==
    /\ ReferentialIntegrity
    /\ \A batch \in Batches(CommentRows), now \in Times :
          (\E i \in DOMAIN batch :
              /\ batch[i].post_id \notin StoredPostIds
              /\ IsNewComment(batch, i))
          => LET res == upsert_comments(reddit_posts, reddit_comments, batch, now)
             IN ~res.ok /\ res.rows = reddit_comments

\* C2 (as claimed): every upsert_comments call containing a comment whose post_id
\* matches no stored post is rejected.
C2_OrphanAlwaysRejected ==
    /\ ReferentialIntegrity
    /\ \A batch \in Batches(CommentRows), now \in Times :
          (\E i \in DOMAIN batch : batch[i].post_id \notin StoredPostIds)
          => ~upsert_comments(reddit_posts, reddit_comments, batch, now).ok

\* C2's case: a call was rejected for its foreign key while posts and comments
\* are stored.
C2_Witness ==
    /\ db_last = [op |-> "upsert_comments", ok |-> FALSE]
    /\ reddit_posts # {}
    /\ reddit_comments # {}

\* What the code does in C9's case: the columns of the UPDATE list of lines
\* 74-82, permalink among them, are overwritten; post_id and subreddit of the
\* stored row keep their values and no other row changes; and no call changes
\* the post_id or the subreddit of a stored row.
C9_PostUpdateFrame ==
    /\ \A r \in PostRows, now \in Times :
          \A x \in {y \in reddit_posts : y.post_id = r.post_id} :
              LET res == upsert_posts(reddit_posts, <<r>>, now) IN
              res.ok =>
                res.rows = (reddit_posts \ {x}) \cup
                    { [post_id |-> x.post_id, subreddit |-> x.subreddit,
                       title |-> r.title, author |-> r.author, url |-> r.url,
                       permalink |-> r.permalink, data_domain |-> r.data_domain,
                       score |-> r.score, created_utc |-> r.created_utc,
                       fetched_at_utc |-> now] }
    /\ \A batch \in Batches(PostRows), now \in Times :
          LET res == upsert_posts(reddit_posts, batch, now) IN
          \A x \in reddit_posts :
              \E y \in res.rows : y.post_id = x.post_id /\ y.subreddit = x.subreddit

\* C9: when a successful upsert_posts is applied to a row whose post_id is
\* already stored, exactly title, author, url, data_domain, score, created_utc
\* and fetched_at_utc of the stored row are overwritten; its post_id, subreddit
\* and permalink keep their previous values and no other row changes.
C9_PermalinkKept ==
    \A r \in PostRows, now \in Times :
        \A x \in {y \in reddit_posts : y.post_id = r.post_id} :
            LET res == upsert_posts(reddit_posts, <<r>>, now) IN
            res.ok =>
              res.rows = (reddit_posts \ {x}) \cup
                  { [post_id |-> x.post_id, subreddit |-> x.subreddit,
                     title |-> r.title, author |-> r.author, url |-> r.url,
                     permalink |-> x.permalink, data_domain |-> r.data_domain,
                     score |-> r.score, created_utc |-> r.created_utc,
                     fetched_at_utc |-> now] }

\* C10: when upsert_comments is applied to a row whose comment_id is already
\* stored, the call succeeds and exactly author, body, score, created_utc and
\* fetched_at_utc of the stored row are overwritten; its comment_id, post_id and
\* parent_id keep their values and no other row changes.
C10_CommentUpdateFrame ==
    \A c \in CommentRows, now \in Times :
        \A x \in {y \in reddit_comments : y.comment_id = c.comment_id} :
            LET res == upsert_comments(reddit_posts, reddit_comments, <<c>>, now) IN
            /\ res.ok
            /\ res.rows = (reddit_comments \ {x}) \cup
                  { [comment_id |-> x.comment_id, post_id |-> x.post_id,
                     parent_id |-> x.parent_id, author |-> c.author,
                     body |-> c.body, score |-> c.score,
                     created_utc |-> c.created_utc, fetched_at_utc |-> now] }

\* C10's case: a stored comment was updated by a later call (its parent_id is
\* the one it was inserted with, its body the later one).
C10_Witness ==
    /\ db_last = [op |-> "upsert_comments", ok |-> TRUE]
    /\ \E x \in reddit_comments :
          /\ x.parent_id = "t3_a"
          /\ x.body = "new body"
          /\ x.fetched_at_utc = 200

(***************************************************************************)
(* Claims about the link-following loop.                                   *)
(***************************************************************************)

\* The identity key as the specification gives it.
IdentityKey(p) ==
    CASE p.post_id # "" -> p.post_id
      [] p.post_id = "" /\ p.permalink # "" -> p.permalink
      [] OTHER -> p.title \o p.author

\* C3: within one run each identity key (post_id, else permalink, else
\* title+author) is admitted once: a record is appended exactly if its key is not
\* yet in seen, seen holds exactly the keys of the collected records, no two
\* collected records share a key, and a run starts with seen and collected empty.
C3_DedupLedger ==
    /\ \A i \in DOMAIN collected, j \in DOMAIN collected :
          i # j => IdentityKey(collected[i]) # IdentityKey(collected[j])
    /\ seen = {IdentityKey(collected[i]) : i \in DOMAIN collected}
    /\ \A p \in Records :
          LET b == ForBody(collected, seen, p, c_limit) IN
          /\ IdentityKey(p) \notin seen =>
                b.collected = Append(collected, p) /\ b.seen = seen \cup {IdentityKey(p)}
          /\ IdentityKey(p) \in seen => b.collected = collected /\ b.seen = seen
    /\ (c_pc = "while" /\ pages = 0) => (seen = {} /\ collected = <<>>)

\* C3's case: a later run has admitted two records, one of them under a key an
\* earlier run had admitted.
C3_Witness ==
    /\ Len(collected) >= 2
    /\ \E i \in DOMAIN collected : IdentityKey(collected[i]) \in earlier
    /\ \E p \in Records : IdentityKey(p) \in seen /\ p \notin {collected[i] : i \in DOMAIN collected}

CrawlEnded == c_pc \in {"done", "raised"}

MaxOf(a, b) == IF a >= b THEN a ELSE b

\* C6 (as amended): the loop always ends; it goes on to another page only while
\* fewer than limit records are collected, the page fetched last gave a next-page
\* URL and fewer than max-pages pages were requested; it never collects more than
\* limit records and never requests more than max(1, max-pages) pages.
C6_LoopTerminates ==
    /\ [](/\ Len(collected) <= c_limit
          /\ pages <= MaxOf(1, c_max_pages)
          /\ (c_pc = "for") => Len(collected) < c_limit
          /\ (c_pc = "while" /\ pages > 0) =>
                /\ Len(collected) < c_limit
                /\ soup.has_button
                /\ pages < c_max_pages)
    /\ <>CrawlEnded

\* C6 (as claimed): never more than max-pages pages, never more than limit records.
C6_NeverMoreThanMaxPages ==
    /\ Len(collected) <= c_limit
    /\ pages <= c_max_pages

\* C6's case: a run with limit and max-pages of at least 2 ended after its last
\* allowed page, which had a next-page link.
C6_Witness ==
    /\ c_pc = "done"
    /\ c_max_pages >= 2
    /\ pages = c_max_pages
    /\ Truthy(get_next_page_url(soup))
    /\ Len(collected) < c_limit

\* C7: when the first document has no next-page marker and holds fewer records
\* than limit, the loop ends right after it: one page fetched, and the result is
\* the records admitted from that page.
C7_SinglePage ==
    [][ (c_pc = "after_for" /\ pages = 1 /\ ~soup.has_button /\ page_n < c_limit)
        => (c_pc' = "done" /\ pages' = 1 /\ collected' = collected
            /\ Result' = collected) ]_vars

\* C7's case: a run ended after one page without marker that held fewer
\* records than limit, at least one of them admitted.
C7_Witness ==
    /\ c_pc = "done"
    /\ pages = 1
    /\ ~soup.has_button
    /\ page_n < c_limit
    /\ Len(collected) >= 1
    /\ c_max_pages >= 2

(***************************************************************************)
(* Claims about the comment tree flattener.                                *)
(***************************************************************************)

\* The proper ancestors of node i.
RECURSIVE Ancestors(_, _)
Ancestors(d, i) ==
    IF d.parent[i] = 0 THEN {} ELSE {d.parent[i]} \cup Ancestors(d, d.parent[i])

\* A real comment with no placeholder among its ancestors.
RealAndReachable(d, i) ==
    /\ d.kind[i] = "t1"
    /\ \A a \in Ancestors(d, i) : d.kind[a] = "t1"

\* The nodes from the top level down to node i.
RECURSIVE PathTo(_, _)
PathTo(d, i) ==
    IF d.parent[i] = 0 THEN <<i>> ELSE Append(PathTo(d, d.parent[i]), i)

\* p comes before q in depth-first pre-order: p is a proper prefix of q (an
\* ancestor), or at the first place they differ p's node is the earlier sibling.
PreOrderBefore(p, q) ==
    \/ Len(p) < Len(q) /\ SubSeq(q, 1, Len(p)) = p
    \/ \E k \in 1..Len(p) :
          /\ k <= Len(q)
          /\ SubSeq(p, 1, k - 1) = SubSeq(q, 1, k - 1)
          /\ p[k] < q[k]

NodeOf(d, name) == CHOOSE i \in 1..d.n : NodeName(i) = name

\* C4: fetch_comments_flat returns the real comments in depth-first pre-order;
\* no placeholder and no descendant of a placeholder is emitted; every real
\* comment without a placeholder among its ancestors is emitted exactly once.
C4_PreOrderFlattening ==
    (f_pc = "returned" /\ f_data.shape = "ok") =>
        LET want == {i \in 1..f_data.n : RealAndReachable(f_data, i)} IN
        /\ {f_out[k].comment_id : k \in DOMAIN f_out} = {NodeName(i) : i \in want}
        /\ Len(f_out) = Cardinality(want)
        /\ \A a \in DOMAIN f_out, b \in DOMAIN f_out :
              a < b => PreOrderBefore(PathTo(f_data, NodeOf(f_data, f_out[a].comment_id)),
                                      PathTo(f_data, NodeOf(f_data, f_out[b].comment_id)))

\* C4's case: a tree three levels deep with a placeholder that has a real comment
\* below it, flattened to at least three comments, one of which is emitted before
\* a node that comes earlier in the source numbering.
C4_Witness ==
    /\ f_pc = "returned"
    /\ f_data.shape = "ok"
    /\ \E i \in 1..f_data.n :
          /\ Len(PathTo(f_data, i)) >= 3
          /\ f_data.kind[i] = "t1"
          /\ \E a \in Ancestors(f_data, i) : f_data.kind[a] = "more"
    /\ Len(f_out) >= 3
    /\ \E a \in DOMAIN f_out, b \in DOMAIN f_out :
          a < b /\ f_out[a].score > f_out[b].score

\* C5: every emitted comment's parent_id is the post's id or the comment_id of
\* another emitted comment, and every emitted comment carries the post's id.
C5_ParentEmitted ==
    f_pc = "returned" =>
        \A k \in DOMAIN f_out :
            /\ f_out[k].post_id = PostFullname
            /\ \/ f_out[k].parent_id = PostFullname
               \/ \E m \in DOMAIN f_out :
                     m # k /\ f_out[m].comment_id = f_out[k].parent_id

\* C5's case: the output holds a top-level comment and a reply, and the tree
\* holds a placeholder with a real comment below it.
C5_Witness ==
    /\ f_pc = "returned"
    /\ \E k \in DOMAIN f_out : f_out[k].parent_id = PostFullname
    /\ \E k \in DOMAIN f_out : f_out[k].parent_id # PostFullname
    /\ \E i \in 1..f_data.n :
          /\ f_data.kind[i] = "t1"
          /\ \E a \in Ancestors(f_data, i) : f_data.kind[a] = "more"


(***************************************************************************)
(* Claims about fetch_posts, checked under SpecFetch.                      *)
(***************************************************************************)

ListingPhase == p_pc \in {"call", "while", "iter", "after_iter"}

\* C8 as the code has it: once max_empty_pages listing pages in a row have
\* yielded no new item, the listing phase is over; the time-window phase is entered when the sort mode
\* is new, and with hot or top fetch_posts returns without a time-window
\* phase; a window that yields no new item ends the time-window phase.
C8_EmptyPagesEndListing ==
    /\ h_empty_run >= p_max_empty_pages =>
          /\ ~ListingPhase
          /\ IF Lower(p_sort) = "new"
             THEN h_window
             ELSE ~h_window /\ p_pc = "done"
    /\ h_empty_window => h_window /\ p_pc = "done"

\* C8 as the spec words it: for any configured sort mode the cursor falls back
\* to the time-window phase after max_empty_pages empty listing pages.
C8_FallsBackForAnySort ==
    h_empty_run >= p_max_empty_pages => h_window

\* C8's case: three empty listing pages in a row after a collected post, the
\* time-window phase entered, and a window that yielded nothing ended it.
C8_Witness ==
    /\ p_max_empty_pages = 3
    /\ h_empty_run >= 3
    /\ Len(p_collected) >= 1
    /\ h_window
    /\ h_empty_window
    /\ p_pc = "done"


(***************************************************************************)
(* Claims about the atomicity of the upserts, checked under Spec.          *)
(***************************************************************************)

\* The row r of a call is visible in the posts table T.
PostVisible(T, r) ==
    \E x \in T : x.post_id = r.post_id
                 \/ (r.permalink # None /\ x.permalink = r.permalink)

\* C11: each upsert_posts / upsert_comments call is atomic: either all rows of
\* the call become visible in the store, every post under its post_id and every
\* comment under its comment_id, or none does: a call that raises leaves its
\* table as it was, and the connection never holds rows of a failed batch that
\* a later successful call on the same connection could commit.
C11_AllRowsVisibleOrNone ==
    /\ cnx_view = [posts |-> reddit_posts, comments |-> reddit_comments]
    /\ \A comments \in Batches(CommentRows) :
          LET res == upsert_comments(reddit_posts, reddit_comments, comments, 200) IN
          IF res.ok
          THEN \A i \in DOMAIN comments :
                  \E x \in res.rows : x.comment_id = comments[i].comment_id
          ELSE res.rows = reddit_comments
    /\ \A posts \in Batches(PostRows) :
          LET res == upsert_posts(reddit_posts, posts, 200) IN
          IF res.ok
          THEN \A i \in DOMAIN posts :
                  \E x \in res.rows : x.post_id = posts[i].post_id
          ELSE res.rows = reddit_posts

\* What the code does in C11's case: a call that raises leaves its table as it
\* was and nothing of it is committed later; a call that returns has stored
\* every comment under its comment_id, and of the posts only the last row of
\* the call is sure to be found, under its post_id or, with another post_id,
\* under its permalink.
C11_AtomicUpserts ==
    /\ cnx_view = [posts |-> reddit_posts, comments |-> reddit_comments]
    /\ \A comments \in Batches(CommentRows) :
          LET res == upsert_comments(reddit_posts, reddit_comments, comments, 200) IN
          IF res.ok
          THEN \A i \in DOMAIN comments :
                  \E x \in res.rows : x.comment_id = comments[i].comment_id
          ELSE res.rows = reddit_comments
    /\ reddit_comments = {} =>
          \A posts \in Batches(PostRows) :
             LET res == upsert_posts(reddit_posts, posts, 200) IN
             IF res.ok
             THEN posts # <<>> => PostVisible(res.rows, posts[Len(posts)])
             ELSE res.rows = reddit_posts

(***************************************************************************)
(* Claims about the orchestrator, checked under SpecCycle / SpecCycleFair. *)
(***************************************************************************)

\* The step is a comment fetch for a post that ended in an exception.
CommentFailureStep ==
    /\ m_attempts' # m_attempts
    /\ m_last'.fetch = "raised" \/ m_last'.store = "raised"

\* The rows of post_rows[:m].
Selected == 1..SliceLen(Len(m_post_rows), m_max)

\* C12: a failure while fetching or storing the comments of one post is caught
\* inside the cycle: the loop goes on with the next selected post, the stored
\* comments are as they were, every selected post has been attempted (or was
\* handled already) when the cycle is done, and the loop reaches "cycle done".
C12_CommentFailureCaught ==
    /\ [][CommentFailureStep =>
             /\ m_pc' = "for"
             /\ m_i' = m_i + 1
             /\ reddit_comments' = reddit_comments
             /\ reddit_posts' = reddit_posts
             /\ cnx_view' = cnx_view]_vars
    /\ [](m_pc = "cycle_done" =>
             /\ \A k \in Selected :
                   \/ \E j \in DOMAIN m_attempts : m_attempts[j] = k
                   \/ m_post_rows[k].post_id \in seen_comment_posts
             /\ \A a, b \in DOMAIN m_attempts : a < b => m_attempts[a] < m_attempts[b])
    /\ (m_pc = "for") ~> (m_pc = "cycle_done")

\* C12's case: the first selected post failed (attempted, not handled), the
\* second was attempted after it and its comments are stored, the cycle is done.
C12_Witness ==
    /\ m_pc = "cycle_done"
    /\ m_attempts = <<1, 2>>
    /\ m_post_rows[1].post_id \notin seen_comment_posts
    /\ m_last.post = m_post_rows[2].post_id
    /\ m_last.store = "ok"
    /\ \E c \in reddit_comments : c.post_id = m_post_rows[2].post_id


\* The step is a comment fetch for a post.
CommentFetchStep == m_attempts' # m_attempts /\ m_attempts' # <<>>

\* C13: across the cycles of one process a post id enters the handled set only
\* in a step in which its comment fetch returned and, when there were comments,
\* their upsert succeeded; a post in the handled set is never comment-fetched
\* again; a post whose fetch or upsert failed is not in the handled set after
\* the failure; nothing ever leaves the handled set.
C13_HandledOnlyAfterSuccess ==
    [][/\ seen_comment_posts' # seen_comment_posts =>
             /\ CommentFetchStep
             /\ m_last'.fetch = "returned"
             /\ m_last'.store = (IF m_last'.passed = <<>> THEN "none" ELSE "ok")
             /\ seen_comment_posts' = seen_comment_posts \cup {m_last'.post}
       /\ CommentFetchStep =>
             /\ m_last'.post = m_post_rows[m_i].post_id
             /\ m_last'.post \notin seen_comment_posts
       /\ CommentFailureStep => m_last'.post \notin seen_comment_posts'
       /\ seen_comment_posts \subseteq seen_comment_posts']_vars

\* C13's case: in a later cycle the first row is a post handled in an earlier
\* cycle and was not fetched again, the second row was fetched, failed, and is
\* not in the handled set.
C13_Witness ==
    /\ m_cycles >= 2
    /\ m_pc = "cycle_done"
    /\ m_attempts = <<2>>
    /\ m_post_rows[1].post_id \in m_start_seen
    /\ m_post_rows[2].post_id \notin seen_comment_posts
    /\ m_last.fetch = "raised"


\* k: the rows upserted in this cycle whose post was not handled when it began.
NotYetHandled == {k \in DOMAIN m_post_rows : m_post_rows[k].post_id \notin m_start_seen}

\* C14 as the code has it: the comment fetches of a cycle are made for rows
\* among post_rows[:m] only, each for a post not handled when the cycle began;
\* when the cycle is done every row of post_rows[:m] was fetched or its post is
\* handled; for m >= 0 there are at most min(k, m) fetches.
C14_FetchesWithinFirstRows ==
    /\ \A j \in DOMAIN m_attempts :
          /\ m_attempts[j] \in Selected
          /\ m_attempts[j] \in NotYetHandled
    /\ m_pc = "cycle_done" =>
          \A k \in Selected :
             \/ \E j \in DOMAIN m_attempts : m_attempts[j] = k
             \/ m_post_rows[k].post_id \in seen_comment_posts
    /\ m_max >= 0 => Len(m_attempts) <= MinOf(Cardinality(NotYetHandled), m_max)

\* C14 as the spec words it: with a bound m >= 0, exactly min(k, m) posts are
\* comment-fetched in a cycle.
C14_ExactlyMinFetches ==
    (m_pc = "cycle_done" /\ m_max >= 0) =>
        Len(m_attempts) = MinOf(Cardinality(NotYetHandled), m_max)

\* C14's case: the bound is 1, the first of two upserted rows is a handled post
\* and the second is not: the cycle is done without any comment fetch.
C14_Witness ==
    /\ m_pc = "cycle_done"
    /\ m_max = 1
    /\ Len(m_post_rows) = 2
    /\ m_post_rows[1].post_id \in m_start_seen
    /\ m_post_rows[2].post_id \notin m_start_seen
    /\ m_attempts = <<>>


\* C15: with poll interval 0 the process runs exactly one cycle and then main
\* returns; with a positive poll interval main never returns and after every
\* finished cycle the next cycle begins, as long as no cycle raises.
C15_PollLoop ==
    /\ [](m_poll = 0 => /\ m_cycles <= 1
                        /\ m_pc = "exited" => m_cycles = 1)
    /\ [](m_poll > 0 => m_pc # "exited")
    /\ [][(m_poll = 0 /\ m_pc = "cycle_done") => m_pc' = "exited"]_vars
    /\ (m_poll = 0) ~> (m_pc \in {"exited", "raised"})
    /\ (m_poll > 0 /\ m_pc = "cycle_done") ~> (m_pc = "upsert_posts")

\* C15's case: with a positive poll interval a second cycle has been run to
\* its end.
C15_Witness ==
    /\ m_poll > 0
    /\ m_cycles >= 2
    /\ m_pc = "cycle_done"


\* C16: every post row the orchestrator passes to upsert_posts has a non-empty
\* post_id and a non-empty permalink, in every cycle and for every scraped list.
C16_RowsHaveIdAndPermalink ==
    \A k \in DOMAIN m_post_rows :
        /\ m_post_rows[k].post_id \notin {"", None}
        /\ m_post_rows[k].permalink \notin {"", None}

\* C16's case: of three scraped records, one without an id and one without a
\* permalink, a single row was prepared and upsert_posts stored it.
C16_Witness ==
    /\ m_pc = "for"
    /\ m_scraped = 3
    /\ Len(m_post_rows) = 1
    /\ db_last = [op |-> "upsert_posts", ok |-> TRUE]
    /\ \E x \in reddit_posts : x.post_id = m_post_rows[1].post_id


\* C17: records missing a mandatory field are dropped before storage: no post
\* with a missing or empty title is passed to upsert_posts and no comment
\* without an id is passed to upsert_comments.
C17_MandatoryFieldsPresent ==
    /\ \A k \in DOMAIN m_post_rows : m_post_rows[k].title \notin {"", None}
    /\ \A j \in DOMAIN m_last.passed : m_last.passed[j].comment_id # None


\* C18: a storage constraint violation raised by upsert_posts or by
\* upsert_comments leaves the cycle as an error: after it main has raised, and
\* the per-post failure handling has not absorbed it.
C18_StorageErrorSurfaces ==
    /\ db_last = [op |-> "upsert_posts", ok |-> FALSE] => m_pc = "raised"
    /\ m_last.store = "raised" => m_pc = "raised"


(***************************************************************************)
(* Claims about the keys of the posts table, checked under SpecPosts.      *)
(***************************************************************************)

\* C19: in every reachable store state, after any sequence of upsert_posts
\* calls, no two stored posts have the same post_id and no two stored posts
\* have the same non-null permalink.
C19_PostKeysUnique ==
    \A x, y \in reddit_posts :
        x # y => /\ x.post_id # y.post_id
                 /\ x.permalink = None \/ x.permalink # y.permalink

\* C19's case: two posts are stored under different permalinks and the latest
\* call, which would have duplicated a key, was rejected.
C19_Witness ==
    /\ Cardinality(reddit_posts) = 2
    /\ \A x \in reddit_posts : x.permalink # None
    /\ db_last = [op |-> "upsert_posts", ok |-> FALSE]

\* C20: after a successful upsert_posts(rows) call every row of the call whose
\* post_id was not stored before is stored under that post_id, also when its
\* permalink is that of a post stored under another post_id, and no stored row
\* whose post_id is not among the call's is modified.
C20_NewPostIdIsInserted ==
    \A posts \in Batches(PostRows) :
        LET res == upsert_posts(reddit_posts, posts, 200)
            called == {posts[i].post_id : i \in DOMAIN posts}
        IN res.ok =>
              /\ \A i \in DOMAIN posts :
                    posts[i].post_id \notin StoredPostIds =>
                       \E x \in res.rows : x.post_id = posts[i].post_id
              /\ \A x \in reddit_posts : x.post_id \notin called => x \in res.rows

(***************************************************************************)
(* Claims about the score text and the timestamp.                          *)
(***************************************************************************)

\* The integer nearest to 1000 * m / scale, halves upwards.
RoundedThousand(m, scale) == (2 * 1000 * m + scale) \div (2 * scale)

\* round(float * 1000) for a text that matches the k pattern.
RoundedKValue(t) ==
    LET body == SubSeq(t, 1, Len(t) - 1)
    IN  IF IsDigits(body) THEN RoundedThousand(DigitsToInt(body), 1)
        ELSE LET i == CHOOSE j \in PointAt(body) : TRUE
                 whole == SubSeq(body, 1, i - 1)
                 frac  == SubSeq(body, i + 1, Len(body))
             IN  RoundedThousand(DigitsToInt(whole) * Pow(10, Len(frac)) + DigitsToInt(frac),
                                 Pow(10, Len(frac)))

\* C21: parse_score maps a digit string to its integer value, "<float>k" to
\* round(float * 1000), and the empty string, the bullet, "score hidden",
\* "hidden" and every other text to None.
C21_ScoreOfEveryText ==
    s_pc = "returned" =>
        LET t == LowerText(Strip(s_text))
        IN  /\ (IsDigits(t) => s_result = <<DigitsToInt(t)>>)
            /\ (MatchesK(t) => s_result = <<RoundedKValue(t)>>)
            /\ (~IsDigits(t) /\ ~MatchesK(t) => s_result = <<>>)

\* C21: the part of the statement apart from the k texts: digit strings give
\* their integer value and texts of neither form give None.
C21_DigitsAndNone ==
    s_pc = "returned" =>
        LET t == LowerText(Strip(s_text))
        IN  /\ (IsDigits(t) => s_result = <<DigitsToInt(t)>>)
            /\ (MatchesK(t) => /\ s_result # <<>>
                               /\ RoundedKValue(t) - s_result[1] \in {0, 1})
            /\ (~IsDigits(t) /\ ~MatchesK(t) => s_result = <<>>)

\* The offset of the datetime attribute in minutes east of UTC.
OffsetMinutes(tag) == ZoneMinutes[ReplaceZ(tag.zone)]

\* The epoch second of the instant an ISO-8601 datetime with offset denotes:
\* local time minus its offset.
EpochOfInstant(tag) ==
    (((tag.day - 1) * 24 + tag.hour) * 60 + tag.minute - OffsetMinutes(tag)) * 60

\* C26: a datetime with any UTC offset or a trailing Z gives the epoch second
\* of the same instant, local time minus its offset; malformed input gives
\* created_utc = None and the record is still emitted.
C26_TimestampIsTheInstant ==
    t_pc = "appended" =>
        /\ t_record.emitted
        /\ (t_tag.kind = "iso" /\ t_tag.zone # "" =>
                t_record.created_utc = <<EpochOfInstant(t_tag)>>)
        /\ (t_tag.kind = "malformed" => t_record.created_utc = <<>>)

\* C26: the part of the statement that holds of the code: offset zero and Z
\* give the instant, malformed input gives None, the record is emitted.
C26_ZeroOffsetAndMalformed ==
    t_pc = "appended" =>
        /\ t_record.emitted
        /\ (t_tag.kind = "iso" /\ t_tag.zone # "" /\ OffsetMinutes(t_tag) = 0 =>
                t_record.created_utc = <<EpochOfInstant(t_tag)>>)
        /\ (t_tag.kind = "malformed" => t_record.created_utc = <<>>)

(***************************************************************************)
(* Claims about the politeness delay of the link-following cursor.         *)
(***************************************************************************)

\* C25: the politeness delay follows every page fetch, whether the fetch
\* succeeded or failed: in every state of a run as many delays have been
\* taken as pages have been requested.
C25_DelayAfterEveryFetch == delays = pages

\* C25: what holds of the code: a delay follows every fetch that succeeded,
\* and the fetch that raised was followed by none.
C25_DelayAfterSuccessOnly ==
    /\ (c_pc # "raised" => delays = pages)
    /\ (c_pc = "raised" => delays = pages - 1)

(***************************************************************************)
(* Claims about the order of the steps of one cycle.                       *)
(***************************************************************************)

\* The step calls upsert_comments.
CommentUpsertStep ==
    \/ reddit_comments' # reddit_comments
    \/ cnx_view'.comments # cnx_view.comments
    \/ (m_attempts' # m_attempts /\ m_last'.store \in {"ok", "raised"})

\* C22: within one cycle the steps occur in the order fetch posts and
\* normalize, upsert posts, then the per-post comment fetches, then cycle done:
\* the rows are prepared before upsert_posts, which adds fetched_at_utc to
\* them and leaves their prepared columns as they are, the
\* comment loop is entered only by an upsert_posts call that returned with its
\* rows committed, every comment fetch and every comment upsert is a step of
\* that loop, made for a row that was passed to upsert_posts, and the cycle is
\* done only from the loop.
C22_CycleOrder ==
    [][/\ (m_pc # "upsert_posts" /\ m_pc' = "upsert_posts") => m_pc = "main"
       /\ m_post_rows' # m_post_rows =>
             \/ m_pc = "main" /\ m_pc' = "upsert_posts"
             \/ /\ m_pc = "upsert_posts"
                /\ Len(m_post_rows') = Len(m_post_rows)
                /\ \A k \in DOMAIN m_post_rows : \A f \in DOMAIN m_post_rows[k] :
                      m_post_rows'[k][f] = m_post_rows[k][f]
       /\ (m_pc # "for" /\ m_pc' = "for") =>
             /\ m_pc = "upsert_posts"
             /\ db_last' = [op |-> "upsert_posts", ok |-> TRUE]
             /\ reddit_posts' = cnx_view'.posts
             /\ reddit_posts' = upsert_posts(cnx_view.posts, m_post_rows, 200).rows
       /\ CommentFetchStep =>
             /\ m_pc = "for"
             /\ m_i \in DOMAIN m_post_rows
             /\ m_last'.post = m_post_rows[m_i].post_id
       /\ CommentUpsertStep =>
             /\ CommentFetchStep
             /\ m_last'.fetch = "returned"
             /\ m_last'.passed # <<>>
       /\ (m_pc # "cycle_done" /\ m_pc' = "cycle_done") => m_pc = "for"]_vars

\* C22's case: in the first cycle two rows were upserted and committed, then
\* the comments of the first row were fetched and stored, and the loop stands
\* before the second row.
C22_Witness ==
    /\ m_cycles = 1
    /\ m_pc = "for"
    /\ Len(m_post_rows) = 2
    /\ m_i = 2
    /\ m_attempts = <<1>>
    /\ m_last.store = "ok"
    /\ \A x \in DOMAIN m_last.passed : m_last.passed[x].post_id = m_post_rows[1].post_id
    /\ \E c \in reddit_comments : c.post_id = m_post_rows[1].post_id

(***************************************************************************)
(* Claims about the two phases of fetch_posts.                             *)
(***************************************************************************)

\* The step ends a window of the time-window phase.
WindowDoneStep == p_pc = "after_witer" /\ p_pc' # "after_witer"

\* The timestamps of the new items of the window.
BatchTimes == {p_page_items[i].created_utc : i \in DOMAIN p_page_items}

\* The least element of a non-empty set of integers.
LeastOf(S) == CHOOSE x \in S : \A y \in S : x <= y

\* The new items of the window lie within the queried window 0..upper.
BatchWithinWindow == \A t \in BatchTimes : 0 <= t /\ t <= p_upper

\* C23: after every window that yields at least one new item the next upper
\* bound is the minimum timestamp of that window's new items minus one, and
\* the phase goes on; when the new items lie within the queried window the
\* upper bound strictly decreases; a window that yields no new item ends the
\* phase; the upper bound changes at the end of a window only.
C23_UpperBoundMoves ==
    [][/\ (WindowDoneStep /\ p_page_items # <<>>) =>
             /\ p_upper' = LeastOf(BatchTimes) - 1
             /\ p_pc' = "wwhile"
             /\ p_collected' = p_collected \o p_page_items
       /\ (WindowDoneStep /\ p_page_items # <<>> /\ BatchWithinWindow) => p_upper' < p_upper
       /\ (WindowDoneStep /\ p_page_items = <<>>) =>
             /\ p_pc' = "done"
             /\ h_empty_window'
       /\ (h_window /\ p_upper' # p_upper) => WindowDoneStep]_vars

\* C23's case: the first window gave the item of time 7, the second window
\* gave an item of time 5 within 0..6, and the upper bound has become 4.
C23_Witness ==
    /\ h_window
    /\ p_pc = "wwhile"
    /\ p_upper = 4
    /\ Len(p_collected) = 2
    /\ p_collected[1].created_utc = 7
    /\ p_collected[2].created_utc = 5
    /\ p_page_items = <<p_collected[2]>>

\* A source error in the listing phase: the step from the iteration of the
\* listing back to the loop test.
ListingErrorStep == p_pc = "iter" /\ p_pc' = "while"

\* sr.search(...) raised: the step from the search back to the loop test.
SearchErrorStep == p_pc = "wsearch" /\ p_pc' = "wwhile"

\* The end of a page or window that gave no new item and no error.
EmptyPageStep == p_pc = "after_iter" /\ p_pc' # "after_iter" /\ p_page_items = <<>>

EmptyWindowStep == p_pc = "after_witer" /\ p_pc' # "after_witer" /\ p_page_items = <<>>

\* What the loops do with the errors they catch and with empty results: the
\* error leads back to the loop test with the counter of empty pages and the
\* collected list as they were; an empty page counts as an empty page and an
\* empty window ends the time-window phase.
RetriesAndEmptyResults ==
    [][/\ ListingErrorStep =>
             /\ p_empty_pages' = p_empty_pages
             /\ p_collected' = p_collected
       /\ SearchErrorStep =>
             /\ p_empty_pages' = p_empty_pages
             /\ p_collected' = p_collected
             /\ p_upper' = p_upper
       /\ EmptyPageStep =>
             /\ p_empty_pages' = p_empty_pages + 1
             /\ p_pc' \in {"while", "wwhile", "done"}
       /\ EmptyWindowStep => p_pc' = "done"]_vars

\* C24: in both phases a transient source error during a page or window fetch
\* is not surfaced to the caller (with a sort mode the function accepts,
\* fetch_posts never raises): the loop retries, the error does not count as an
\* empty page, and an empty page or window is not retried as an error.
C24_SourceErrorsNotSurfaced ==
    /\ [](Lower(p_sort) \in {"new", "hot", "top"} => p_pc # "raised")
    /\ RetriesAndEmptyResults

\* C24: what holds of the code: as above for the errors of the listing phase
\* and of the call sr.search(...); fetch_posts raises in the listing phase
\* only for a sort mode it does not accept.
C24_ListingErrorsNotSurfaced ==
    /\ []((Lower(p_sort) \in {"new", "hot", "top"} /\ ~h_window) => p_pc # "raised")
    /\ RetriesAndEmptyResults

\* The ids of the records of the collected list.
CollectedIds == {p_collected[i].id : i \in DOMAIN p_collected}

\* fetch_posts stands at a loop boundary: the test of one of its while loops.
AtLoopBoundary == p_pc \in {"while", "wwhile"}

\* C27: at every loop boundary each id in seen_ids belongs to a record in the
\* collected list: no item is marked seen without being collected.
C27_SeenIdsAreCollected ==
    AtLoopBoundary => p_seen_ids \subseteq CollectedIds

\* C27: what holds of the code: every collected record is marked seen, and in
\* the time-window phase, which starts with seen_ids rebuilt from the
\* collected list, the seen ids are the collected ids at every loop boundary.
C27_CollectedAreSeen ==
    /\ AtLoopBoundary => CollectedIds \subseteq p_seen_ids
    /\ p_pc = "wwhile" => p_seen_ids = CollectedIds

\* C28: for every total_limit, sort mode and source behaviour the list
\* fetch_posts returns has at most total_limit records and no two records
\* with the same id, across both phases; with total_limit <= 0 the only step
\* of the call is the return of the empty list, with no listing opened, no
\* search made and no item read.
C28_ReturnedList ==
    /\ [](p_pc = "done" =>
             /\ Len(p_collected) <= (IF p_total_limit > 0 THEN p_total_limit ELSE 0)
             /\ \A i, j \in DOMAIN p_collected :
                   p_collected[i].id = p_collected[j].id => i = j)
    /\ [][p_total_limit <= 0 =>
             /\ p_pc = "call"
             /\ p_pc' = "done"
             /\ p_collected' = <<>>
             /\ UNCHANGED <<p_seen_ids, p_page_items, p_empty_pages, p_yielded, p_upper,
                            p_oldest_ts, fetchHist>>]_vars

\* C28's case: with total_limit 2 the listing phase ended after empty pages
\* with one record, the time-window phase added a second record, and the list
\* of two records has been returned.
C28_Witness ==
    /\ p_pc = "done"
    /\ p_total_limit = 2
    /\ h_empty_run >= p_max_empty_pages
    /\ h_window
    /\ p_upper < NowTs
    /\ Len(p_collected) = 2
    /\ p_page_items = <<p_collected[2]>>

\* The source raises while the search results of a window are iterated.
WindowErrorStep == p_pc = "witer" /\ p_pc' = "raised"

\* The source raises an error in this step.
SourceErrorStep == ListingErrorStep \/ SearchErrorStep \/ WindowErrorStep

\* The source raises only finitely many errors.
FinitelyManyErrors == <>[][~SourceErrorStep]_vars

ValidSort == Lower(p_sort) \in {"new", "hot", "top"}

\* C29: fetch_posts eventually returns whenever the source, which holds
\* finitely many items, raises only finitely many transient errors; under
\* persistent source errors, when no listing page is ever read to its end,
\* fetch_posts never returns.
C29_EventuallyReturns ==
    /\ (ValidSort /\ FinitelyManyErrors) => <>(p_pc = "done")
    /\ [](p_pc # "after_iter") => [](p_total_limit > 0 => p_pc # "done")

\* C29: what holds of the code: with finitely many source errors fetch_posts
\* eventually returns or raises, and it returns when no error falls into the
\* iteration of a window's results (the only error that makes it raise with
\* a sort mode it accepts); under persistent errors of the listing it never
\* returns.
C29_EventuallyEnds ==
    /\ FinitelyManyErrors => <>(p_pc \in {"done", "raised"})
    /\ (ValidSort /\ FinitelyManyErrors /\ [](p_pc # "raised")) => <>(p_pc = "done")
    /\ [](p_pc # "after_iter") => [](p_total_limit > 0 => p_pc # "done")

====
